---- MODULE Spec2Model ----
(***************************************************************************)
(* A model of the QR code generator / analyzer (zarq/qr-code-generator).   *)
(* The program is a set of pure pipelines; each specification below drives *)
(* one pipeline over bounded inputs: the state is the pipeline's inputs,   *)
(* its intermediate products and the values its functions returned.        *)
(***************************************************************************)
EXTENDS Integers, Sequences, FiniteSets, TLC

VARIABLES
    pc,                 \* position of the pipeline in progress
    version,            \* types.rs Version, as its discriminant 1..40
    returned,           \* values returned so far, by function name
    matrix,             \* the module matrix, rows of 0/1
    original,           \* the matrix as it was before masking
    mask_pattern,       \* types.rs MaskPattern, as 0..7
    data,               \* ecc.rs: the data codewords of one block
    num_ecc_codewords,  \* ecc.rs: the parity length t
    codeword,           \* ecc.rs: the block as transmitted, data || ecc
    received,           \* ecc.rs: the received block (the codeword, corrupted)
    col,                \* pixel_mapping.rs: the sweep's current column
    going_up,           \* pixel_mapping.rs: the sweep's direction
    positions,          \* pixel_mapping.rs: the positions pushed so far
    config              \* types.rs QrConfig: data, error_correction, data_mode

vars == <<pc, version, returned, matrix, original, mask_pattern, data,
          num_ecc_codewords, codeword, received, col, going_up, positions, config>>

\* The value of a variable a specification does not use.
Idle == "idle"

\* The empty map of returned values.
NoReturns == [f \in {} |-> 0]

(***************************************************************************)
(* types.rs: Version                                                       *)
(***************************************************************************)

\* Version::V40, the last discriminant of the enum.
MaxVersion == 40

\* Version::V1 .. Version::V40
Versions == 1..MaxVersion

\* Version::size(): ten explicit arms, then `_ => 21 + (self as usize) * 4`.
Version_size(self) ==
    CASE self = 1 -> 21
      [] self = 2 -> 25
      [] self = 3 -> 29
      [] self = 4 -> 33
      [] self = 5 -> 37
      [] self = 6 -> 41
      [] self = 7 -> 45
      [] self = 8 -> 49
      [] self = 9 -> 53
      [] self = 10 -> 57
      [] OTHER -> 21 + (self * 4)

(***************************************************************************)
(* pixel_mapping.rs: version_to_size, size_to_version                      *)
(***************************************************************************)

\* The forty arms of version_to_size, V1 => 21 .. V40 => 177.
version_to_size_table ==
    <<21, 25, 29, 33, 37, 41, 45, 49, 53, 57,
      61, 65, 69, 73, 77, 81, 85, 89, 93, 97,
      101, 105, 109, 113, 117, 121, 125, 129, 133, 137,
      141, 145, 149, 153, 157, 161, 165, 169, 173, 177>>

version_to_size(v) == version_to_size_table[v]

(***************************************************************************)
(* Specification SpecVersion: a version is chosen, and Version::size and   *)
(* version_to_size are called on it, in either order.                      *)
(***************************************************************************)

InitVersion ==
    /\ pc = "version"
    /\ version \in Versions
    /\ returned = NoReturns
    /\ matrix = Idle /\ original = Idle /\ mask_pattern = Idle
    /\ data = Idle /\ num_ecc_codewords = Idle
    /\ codeword = Idle /\ received = Idle
    /\ col = Idle /\ going_up = Idle /\ positions = Idle /\ config = Idle

\* The variables SpecVersion leaves alone.
version_unused == <<matrix, original, mask_pattern, data, num_ecc_codewords,
                    codeword, received, col, going_up, positions, config>>

CallVersionSize ==
    /\ pc = "version"
    /\ "Version_size" \notin DOMAIN returned
    /\ returned' = returned @@ ("Version_size" :> Version_size(version))
    /\ UNCHANGED <<pc, version, version_unused>>

CallVersionToSize ==
    /\ pc = "version"
    /\ "version_to_size" \notin DOMAIN returned
    /\ returned' = returned @@ ("version_to_size" :> version_to_size(version))
    /\ UNCHANGED <<pc, version, version_unused>>

NextVersion == CallVersionSize \/ CallVersionToSize

SpecVersion == InitVersion /\ [][NextVersion]_vars

\* Both functions have returned for the chosen version.
BothSizesReturned ==
    /\ pc = "version"
    /\ {"Version_size", "version_to_size"} \subseteq DOMAIN returned

\* C9: for every version v in 1..40, Version::size() returns 17 + 4*v, the
\* same value as pixel_mapping::version_to_size(v).
C9_ModuleCount ==
    BothSizesReturned =>
        /\ returned["Version_size"] = 17 + 4 * version
        /\ returned["version_to_size"] = returned["Version_size"]

(***************************************************************************)
(* mask.rs: apply_mask and the eight apply_patternN                        *)
(***************************************************************************)

\* types.rs MaskPattern::Pattern0 .. Pattern7
MaskPatterns == 0..7

\* `matrix[y][x] |= 1`: the module is set, not toggled.
or_one(v) == IF v % 2 = 0 THEN v + 1 ELSE v

\* `matrix[y][x] ^= 1` on a u8.
xor_one(v) == IF v % 2 = 0 THEN v + 1 ELSE v - 1

\* Each apply_patternN: for y in 0..matrix.len(), for x in 0..matrix[y].len(),
\* `matrix[y][x] ^= 1` where the pattern's condition holds (row i is y + 1).
apply_pattern0(m) ==
    [i \in 1..Len(m) |->
        [j \in 1..Len(m[i]) |->
            LET x == j - 1
                y == i - 1
            IN  IF (x + y) % 2 = 0 THEN xor_one(m[i][j]) ELSE m[i][j]]]

apply_pattern1(m) ==
    [i \in 1..Len(m) |->
        [j \in 1..Len(m[i]) |->
            LET x == j - 1
                y == i - 1
            IN  IF y % 2 = 0 THEN xor_one(m[i][j]) ELSE m[i][j]]]

apply_pattern2(m) ==
    [i \in 1..Len(m) |->
        [j \in 1..Len(m[i]) |->
            LET x == j - 1
                y == i - 1
            IN  IF x % 3 = 0 THEN xor_one(m[i][j]) ELSE m[i][j]]]

apply_pattern3(m) ==
    [i \in 1..Len(m) |->
        [j \in 1..Len(m[i]) |->
            LET x == j - 1
                y == i - 1
            IN  IF (x + y) % 3 = 0 THEN xor_one(m[i][j]) ELSE m[i][j]]]

\* apply_pattern4 with x and y exchanged in its condition.
apply_pattern4_swapped(m) ==
    [i \in 1..Len(m) |->
        [j \in 1..Len(m[i]) |->
            LET x == j - 1
                y == i - 1
            IN  IF ((x \div 2) + (y \div 3)) % 2 = 0 THEN xor_one(m[i][j]) ELSE m[i][j]]]

apply_pattern4(m) ==
    [i \in 1..Len(m) |->
        [j \in 1..Len(m[i]) |->
            LET x == j - 1
                y == i - 1
            IN  IF ((y \div 2) + (x \div 3)) % 2 = 0 THEN xor_one(m[i][j]) ELSE m[i][j]]]

apply_pattern5(m) ==
    [i \in 1..Len(m) |->
        [j \in 1..Len(m[i]) |->
            LET x == j - 1
                y == i - 1
            IN  IF ((x * y) % 2) + ((x * y) % 3) = 0 THEN xor_one(m[i][j]) ELSE m[i][j]]]

apply_pattern6(m) ==
    [i \in 1..Len(m) |->
        [j \in 1..Len(m[i]) |->
            LET x == j - 1
                y == i - 1
            IN  IF (((x * y) % 2) + ((x * y) % 3)) % 2 = 0 THEN xor_one(m[i][j]) ELSE m[i][j]]]

apply_pattern7(m) ==
    [i \in 1..Len(m) |->
        [j \in 1..Len(m[i]) |->
            LET x == j - 1
                y == i - 1
            IN  IF (((x + y) % 2) + ((x * y) % 3)) % 2 = 0 THEN xor_one(m[i][j]) ELSE m[i][j]]]

\* apply_mask: dispatch on the pattern.
apply_mask(m, pattern) ==
    CASE pattern = 0 -> apply_pattern0(m)
      [] pattern = 1 -> apply_pattern1(m)
      [] pattern = 2 -> apply_pattern2(m)
      [] pattern = 3 -> apply_pattern3(m)
      [] pattern = 4 -> apply_pattern4(m)
      [] pattern = 5 -> apply_pattern5(m)
      [] pattern = 6 -> apply_pattern6(m)
      [] pattern = 7 -> apply_pattern7(m)

(***************************************************************************)
(* analyzer.rs: apply_mask_to_bit                                          *)
(***************************************************************************)

\* apply_mask_to_bit: the mask condition at (row, col), then `1 - bit` or bit.
apply_mask_to_bit(bit, row, column, mask) ==
    LET mask_value ==
            CASE mask = 0 -> (row + column) % 2 = 0
              [] mask = 1 -> row % 2 = 0
              [] mask = 2 -> column % 3 = 0
              [] mask = 3 -> (row + column) % 3 = 0
              [] mask = 4 -> ((row \div 2) + (column \div 3)) % 2 = 0
              [] mask = 5 -> ((row * column) % 2) + ((row * column) % 3) = 0
              [] mask = 6 -> (((row * column) % 2) + ((row * column) % 3)) % 2 = 0
              [] mask = 7 -> (((row + column) % 2) + ((row * column) % 3)) % 2 = 0
    IN  IF mask_value THEN 1 - bit ELSE bit

(***************************************************************************)
(* Specification SpecMask: a square bit matrix and a mask pattern are      *)
(* chosen; apply_mask is called on the matrix, up to twice, and the        *)
(* analyzer's apply_mask_to_bit is called on single bits.                  *)
(***************************************************************************)

\* The largest matrix side of SpecMask.
MaskMaxSize == 7

\* Bit matrices of side n: all zero, all one, and three mixed ones.
SquareMatrices(n) ==
    { [i \in 1..n |-> [j \in 1..n |-> 0]],
      [i \in 1..n |-> [j \in 1..n |-> 1]],
      [i \in 1..n |-> [j \in 1..n |-> (i + j) % 2]],
      [i \in 1..n |-> [j \in 1..n |-> IF (i * j + i) % 3 = 0 THEN 1 ELSE 0]],
      [i \in 1..n |-> [j \in 1..n |-> IF i <= j THEN 1 ELSE 0]] }

InitMask ==
    /\ pc = "masked_0"
    /\ mask_pattern \in MaskPatterns
    /\ \E n \in 1..MaskMaxSize : matrix \in SquareMatrices(n)
    /\ original = matrix
    /\ returned = NoReturns
    /\ version = Idle
    /\ data = Idle /\ num_ecc_codewords = Idle
    /\ codeword = Idle /\ received = Idle
    /\ col = Idle /\ going_up = Idle /\ positions = Idle /\ config = Idle

\* The variables SpecMask leaves alone.
mask_unused == <<version, data, num_ecc_codewords, codeword, received, col,
                 going_up, positions, config>>

\* mask::apply_mask(&mut matrix, mask_pattern)
ApplyMask ==
    /\ pc \in {"masked_0", "masked_1"}
    /\ matrix' = apply_mask(matrix, mask_pattern)
    /\ pc' = IF pc = "masked_0" THEN "masked_1" ELSE "masked_2"
    /\ UNCHANGED <<returned, original, mask_pattern, mask_unused>>

\* apply_mask_to_bit(bit, row, col, mask_pattern) on a module of the matrix.
ApplyMaskToBit ==
    /\ pc = "masked_0"
    /\ \E row \in 0..(Len(matrix) - 1), column \in 0..(Len(matrix) - 1) :
          returned' = ("apply_mask_to_bit" :>
              [bit |-> original[row + 1][column + 1], row |-> row, col |-> column,
               result |-> apply_mask_to_bit(original[row + 1][column + 1],
                                            row, column, mask_pattern)])
    /\ UNCHANGED <<pc, matrix, original, mask_pattern, mask_unused>>

NextMask == ApplyMask \/ ApplyMaskToBit

SpecMask == InitMask /\ [][NextMask]_vars

\* C6: for every mask pattern 0..7 and every square bit matrix M, calling
\* apply_mask(M, m) twice leaves every module of M equal to its original value.
C6_MaskInvolution ==
    pc = "masked_2" =>
        \A i \in 1..Len(original) : \A j \in 1..Len(original) :
            matrix[i][j] = original[i][j]

\* apply_mask has run twice on a 7 x 7 matrix, and its first run changed it.
C6_Witness ==
    /\ pc = "masked_2"
    /\ Len(original) >= 6
    /\ apply_mask(original, mask_pattern) # original
    /\ matrix = original

\* The condition of the mask table for pattern m at row r, column c.
TableCondition(m, r, c) ==
    CASE m = 0 -> (r + c) % 2 = 0
      [] m = 1 -> r % 2 = 0
      [] m = 2 -> c % 3 = 0
      [] m = 3 -> (r + c) % 3 = 0
      [] m = 4 -> ((r \div 2) + (c \div 3)) % 2 = 0
      [] m = 5 -> (r * c) % 2 = 0 /\ (r * c) % 3 = 0
      [] m = 6 -> (((r * c) % 2) + ((r * c) % 3)) % 2 = 0
      [] m = 7 -> (((r + c) % 2) + ((r * c) % 3)) % 2 = 0

\* C8: for every mask m in 0..7 and every module at row r, column c,
\* apply_mask toggles the module exactly when the table condition holds, and
\* the analyzer's apply_mask_to_bit flips a bit under exactly the same
\* condition.
C8_MaskConditions ==
    /\ pc = "masked_1" =>
          \A r \in 0..(Len(original) - 1) : \A c \in 0..(Len(original) - 1) :
              (matrix[r + 1][c + 1] # original[r + 1][c + 1])
                  <=> TableCondition(mask_pattern, r, c)
    /\ "apply_mask_to_bit" \in DOMAIN returned =>
          LET call == returned["apply_mask_to_bit"]
          IN  /\ call.result \in {0, 1}
              /\ (call.result # call.bit)
                    <=> TableCondition(mask_pattern, call.row, call.col)

\* Pattern 4 has been applied once to a 7 x 7 matrix, after apply_mask_to_bit
\* flipped the bit of a module in the last row and column.
C8_Witness ==
    /\ pc = "masked_1"
    /\ mask_pattern = 4
    /\ Len(original) >= 7
    /\ matrix # original
    /\ "apply_mask_to_bit" \in DOMAIN returned
    /\ returned["apply_mask_to_bit"].row = 5
    /\ returned["apply_mask_to_bit"].col = 6
    /\ returned["apply_mask_to_bit"].result # returned["apply_mask_to_bit"].bit

(***************************************************************************)
(* GF(256): the tables of gf_tables.rs (generated at build time from the   *)
(* primitive polynomial 0x11D with alpha = 2) and ecc.rs gf_add,           *)
(* gf_multiply, gf_exp, gf_log, gf_divide.                                 *)
(***************************************************************************)

\* a ^ b on u8 values.
RECURSIVE xor_u8(_, _)
xor_u8(a, b) ==
    IF a = 0 THEN b
    ELSE IF b = 0 THEN a
    ELSE 2 * xor_u8(a \div 2, b \div 2) + ((a + b) % 2)

\* The next power of alpha: the value doubled, reduced by 0x11D (285).
gf_times_alpha(value) ==
    IF 2 * value >= 256 THEN xor_u8(2 * value, 285) ELSE 2 * value

\* The product of a and b as polynomials over GF(2), reduced by 0x11D.
RECURSIVE gf_polynomial_product(_, _)
gf_polynomial_product(a, b) ==
    IF b = 0 THEN 0
    ELSE xor_u8(IF b % 2 = 1 THEN a ELSE 0,
                gf_polynomial_product(gf_times_alpha(a), b \div 2))

\* alpha^i, by squaring.
RECURSIVE alpha_power(_)
alpha_power(i) ==
    IF i = 0 THEN 1
    ELSE IF i % 2 = 1 THEN gf_times_alpha(alpha_power(i - 1))
    ELSE gf_polynomial_product(alpha_power(i \div 2), alpha_power(i \div 2))

\* GF_EXP[i] = alpha^i for i in [0, 255); entry i is at index i + 1.
GF_EXP == SubSeq([k \in 1..255 |-> alpha_power(k - 1)], 1, 255)

\* GF_LOG[v] = i such that GF_EXP[i] = v, for v in 1..255.
GF_LOG ==
    SubSeq([v \in 1..255 |-> (CHOOSE k \in 1..255 : GF_EXP[k] = v) - 1], 1, 255)

gf_add(a, b) == xor_u8(a, b)

gf_exp(exp) == GF_EXP[(exp % 255) + 1]

\* gf_log panics on 0; every caller tests for 0 first.
gf_log(val) == GF_LOG[val]

gf_multiply(a, b) ==
    IF a = 0 \/ b = 0 THEN 0
    ELSE gf_exp((gf_log(a) + gf_log(b)) % 255)

\* gf_divide panics on b = 0; the callers below divide by non-zero values.
gf_divide(a, b) ==
    IF a = 0 THEN 0
    ELSE gf_exp((255 + gf_log(a) - gf_log(b)) % 255)

(***************************************************************************)
(* ecc.rs: get_generator_polynomial, generate_ecc, calculate_syndromes     *)
(***************************************************************************)

\* One round of get_generator_polynomial's loop: new_poly = poly * (x + alpha^i).
generator_round(poly, i) ==
    SubSeq([j \in 1..(Len(poly) + 1) |->
               gf_add(IF j <= Len(poly) THEN poly[j] ELSE 0,
                      IF j >= 2 THEN gf_multiply(poly[j - 1], gf_exp(i)) ELSE 0)],
           1, Len(poly) + 1)

\* The loop of get_generator_polynomial from round i up to round stop - 1,
\* on the polynomial built so far (never empty: the test on its length only
\* has the polynomial evaluated before the next round starts).
RECURSIVE generator_from(_, _, _)
generator_from(poly, i, stop) ==
    IF i >= stop \/ Len(poly) = 0 THEN poly
    ELSE generator_from(generator_round(poly, i), i + 1, stop)

\* get_generator_polynomial with the roots alpha^1 .. alpha^degree.
get_generator_polynomial_shifted(degree) == generator_from(<<1>>, 1, degree + 1)

\* get_generator_polynomial(degree): coefficients, highest degree first.
get_generator_polynomial(degree) == generator_from(<<1>>, 0, degree)

\* The body of generate_ecc's loop for one i: subtract coeff * generator
\* from message[i .. i + generator.len()).
ecc_division_step(message, generator, i) ==
    LET coeff == message[i + 1]
    IN  IF coeff = 0 THEN message
        ELSE SubSeq([k \in 1..Len(message) |->
                        IF k - 1 >= i /\ k - 1 < i + Len(generator)
                        THEN gf_add(message[k], gf_multiply(generator[k - i], coeff))
                        ELSE message[k]],
                    1, Len(message))

\* generate_ecc's loop `for i in 0..data.len()` from index i on (the message
\* is never empty: the test on its length only has it evaluated before the
\* next iteration starts).
RECURSIVE ecc_division(_, _, _, _)
ecc_division(message, generator, i, data_len) ==
    IF i >= data_len \/ Len(message) = 0 THEN message
    ELSE ecc_division(ecc_division_step(message, generator, i),
                      generator, i + 1, data_len)

\* generate_ecc with the division stopping one data codeword early.
generate_ecc_short(block, t) ==
    LET generator == get_generator_polynomial(t)
        message == block \o SubSeq([k \in 1..t |-> 0], 1, t)
        divided == ecc_division(message, generator, 0, Len(block) - 1)
    IN  SubSeq(divided, Len(block) + 1, Len(block) + t)

\* generate_ecc(data, num_ecc_codewords): only the ECC codewords.
generate_ecc(block, t) ==
    LET generator == get_generator_polynomial(t)
        message == block \o SubSeq([k \in 1..t |-> 0], 1, t)
        divided == ecc_division(message, generator, 0, Len(block))
    IN  SubSeq(divided, Len(block) + 1, Len(block) + t)

\* Horner's evaluation of the word at alpha, over its first `count` bytes.
RECURSIVE horner(_, _, _)
horner(word, alpha, count) ==
    IF count = 0 THEN 0
    ELSE gf_add(gf_multiply(horner(word, alpha, count - 1), alpha), word[count])

\* calculate_syndromes evaluating at alpha^1 .. alpha^t instead of alpha^0 ..
calculate_syndromes_shifted(word, t) ==
    SubSeq([i \in 1..t |-> horner(word, gf_exp(i % 255), Len(word))], 1, t)

\* calculate_syndromes(received, num_ecc_codewords): S_i = received(alpha^i).
calculate_syndromes(word, t) ==
    SubSeq([i \in 1..t |-> horner(word, gf_exp((i - 1) % 255), Len(word))], 1, t)

(***************************************************************************)
(* reed_solomon::Decoder::correct, the decoder correct_errors calls: the   *)
(* bounded-distance decoder of the Reed-Solomon codec's decoding steps 2-6 *)
(* (Berlekamp-Massey, Chien search, Forney, syndrome re-check).            *)
(* Polynomials here are coefficient sequences, lowest degree first.        *)
(***************************************************************************)

\* The sum (XOR) of a sequence of field elements.
RECURSIVE gf_sum(_)
gf_sum(terms) ==
    IF Len(terms) = 0 THEN 0 ELSE gf_add(Head(terms), gf_sum(Tail(terms)))

\* The coefficient of x^k in poly, 0 past its end.
coefficient(poly, k) == IF k + 1 <= Len(poly) THEN poly[k + 1] ELSE 0

\* The degree of poly: the index of its last non-zero coefficient (0 if none).
RECURSIVE poly_degree(_)
poly_degree(poly) ==
    IF Len(poly) <= 1 THEN 0
    ELSE IF poly[Len(poly)] # 0 THEN Len(poly) - 1
    ELSE poly_degree(SubSeq(poly, 1, Len(poly) - 1))

\* poly(x), by Horner's rule from coefficient k on.
RECURSIVE poly_eval_from(_, _, _)
poly_eval_from(poly, x, k) ==
    IF k > Len(poly) THEN 0
    ELSE gf_add(poly[k], gf_multiply(x, poly_eval_from(poly, x, k + 1)))

poly_eval(poly, x) == poly_eval_from(poly, x, 1)

\* Berlekamp-Massey's discrepancy at syndrome n (0-based) for the locator C
\* of length L: S_n + sum of C_i * S_(n-i), i in 1..L.
bm_discrepancy(C, S, n, L) ==
    gf_sum(SubSeq([i \in 1..(L + 1) |->
                      gf_multiply(coefficient(C, i - 1), S[n - (i - 1) + 1])],
                  1, L + 1))

\* C(x) - scale * x^shift * B(x)
bm_update(C, B, scale, shift) ==
    LET length == IF Len(C) > Len(B) + shift THEN Len(C) ELSE Len(B) + shift
    IN  SubSeq([k \in 1..length |->
                   gf_add(coefficient(C, k - 1),
                          IF k > shift
                          THEN gf_multiply(scale, coefficient(B, k - 1 - shift))
                          ELSE 0)],
               1, length)

\* One iteration of Berlekamp-Massey on the state [C, B, L, m, b].
bm_step(st, S, n) ==
    LET d == bm_discrepancy(st.C, S, n, st.L)
    IN  IF d = 0 THEN [st EXCEPT !.m = @ + 1]
        ELSE IF 2 * st.L <= n
             THEN [C |-> bm_update(st.C, st.B, gf_divide(d, st.b), st.m),
                   B |-> st.C, L |-> n + 1 - st.L, m |-> 1, b |-> d]
             ELSE [st EXCEPT !.C = bm_update(st.C, st.B, gf_divide(d, st.b), st.m),
                             !.m = @ + 1]

RECURSIVE bm_run(_, _, _)
bm_run(st, S, n) ==
    IF n >= Len(S) THEN st ELSE bm_run(bm_step(st, S, n), S, n + 1)

\* Step 2: the error-locator state after all syndromes.
berlekamp_massey_locator(S) ==
    bm_run([C |-> <<1>>, B |-> <<1>>, L |-> 0, m |-> 1, b |-> 1], S, 0)

\* alpha^(-i)
alpha_inverse_power(i) == gf_exp(255 - (i % 255))

\* Step 3: the powers i in [0, n) with Lambda(alpha^(-i)) = 0.
chien_roots(lambda, n) ==
    {i \in 0..(n - 1) : poly_eval(lambda, alpha_inverse_power(i)) = 0}

\* Step 4: Omega(x) = S(x) * Lambda(x) mod x^t.
error_evaluator(S, lambda) ==
    SubSeq([k \in 1..Len(S) |->
               gf_sum(SubSeq([i \in 1..k |->
                                 gf_multiply(S[i], coefficient(lambda, k - i))],
                             1, k))],
           1, Len(S))

\* The formal derivative of Lambda: only the odd-power terms survive.
formal_derivative(lambda) ==
    IF Len(lambda) <= 1 THEN <<0>>
    ELSE SubSeq([k \in 1..(Len(lambda) - 1) |->
                    IF k % 2 = 1 THEN lambda[k + 1] ELSE 0],
                1, Len(lambda) - 1)

\* Forney's magnitude of the error at power i.  The generator's roots start
\* at alpha^0, so the quotient carries the factor X = alpha^i (for a single
\* error it is S_0).
forney_magnitude(S, lambda, i) ==
    gf_multiply(gf_exp(i),
                gf_divide(poly_eval(error_evaluator(S, lambda), alpha_inverse_power(i)),
                          poly_eval(formal_derivative(lambda), alpha_inverse_power(i))))

\* Step 5: the buffer with the magnitudes added at the located positions
\* (power i is the byte at index n - 1 - i).
apply_magnitudes(buffer, S, lambda, roots) ==
    SubSeq([k \in 1..Len(buffer) |->
               IF (Len(buffer) - k) \in roots
               THEN gf_add(buffer[k], forney_magnitude(S, lambda, Len(buffer) - k))
               ELSE buffer[k]],
           1, Len(buffer))

\* A sequence of field elements is all zero.
all_zero(values) == \A k \in 1..Len(values) : values[k] = 0

\* The decoder's syndromes S_i = buffer(alpha^i), i in [0, ecc_len).
decoder_syndromes(buffer, ecc_len) ==
    SubSeq([i \in 1..ecc_len |->
               poly_eval(SubSeq([k \in 1..Len(buffer) |-> buffer[Len(buffer) + 1 - k]],
                                1, Len(buffer)),
                         gf_exp(i - 1))],
           1, ecc_len)

\* Decoder::new(ecc_len).correct(buffer, None): Ok with the corrected buffer,
\* or Err when the locator's degree exceeds t/2, when Chien search does not
\* find as many roots as the degree, or when the corrected buffer still has a
\* non-zero syndrome.
Decoder_correct(buffer, ecc_len) ==
    LET S == decoder_syndromes(buffer, ecc_len)
        st == berlekamp_massey_locator(S)
        lambda == SubSeq(st.C, 1, poly_degree(st.C) + 1)
        degree == poly_degree(st.C)
        roots == chien_roots(lambda, Len(buffer))
    IN  IF 2 * degree > ecc_len \/ 2 * st.L > ecc_len THEN [ok |-> FALSE]
        ELSE IF Cardinality(roots) # degree \/ degree # st.L THEN [ok |-> FALSE]
        ELSE LET corrected == apply_magnitudes(buffer, S, lambda, roots)
             IN  IF all_zero(decoder_syndromes(corrected, ecc_len))
                 THEN [ok |-> TRUE, buffer |-> corrected]
                 ELSE [ok |-> FALSE]

(***************************************************************************)
(* ecc.rs: correct_errors                                                  *)
(***************************************************************************)

Uncorrectable == [kind |-> "Uncorrectable"]

ErrorFree(block) == [kind |-> "ErrorFree", data |-> block]

Corrected(block) ==
    [kind |-> "Corrected", data |-> block,
     error_positions |-> <<>>, error_magnitudes |-> <<>>]

\* correct_errors reporting ErrorFree as soon as the first syndrome is zero.
correct_errors_first_syndrome(word, t) ==
    IF Len(word) <= t THEN Uncorrectable
    ELSE LET data_len == Len(word) - t
             syndromes == calculate_syndromes(word, t)
         IN  IF syndromes[1] = 0 THEN ErrorFree(SubSeq(word, 1, data_len))
             ELSE LET decoded == Decoder_correct(word, t)
                  IN  IF decoded.ok
                      THEN Corrected(SubSeq(decoded.buffer, 1, data_len))
                      ELSE Uncorrectable

\* correct_errors(received, num_ecc_codewords)
correct_errors(word, t) ==
    IF Len(word) <= t THEN Uncorrectable
    ELSE LET data_len == Len(word) - t
             syndromes == calculate_syndromes(word, t)
         IN  IF all_zero(syndromes) THEN ErrorFree(SubSeq(word, 1, data_len))
             ELSE LET decoded == Decoder_correct(word, t)
                  IN  IF decoded.ok
                      THEN Corrected(SubSeq(decoded.buffer, 1, data_len))
                      ELSE Uncorrectable

(***************************************************************************)
(* Specifications SpecEncode and SpecRS: a data block and a parity length  *)
(* are chosen and generate_ecc builds the codeword.  In SpecEncode the     *)
(* generator polynomial is also asked for; in SpecRS the codeword is       *)
(* corrupted, one byte at a time, and then handed to correct_errors.       *)
(***************************************************************************)

\* The longest data block of SpecRS.
MaxDataLen == 2

\* The largest parity length of SpecRS.
MaxEcc == 4

\* The largest number of corrupted codewords of SpecRS.
MaxErrors == 2

\* The largest parity length of SpecEncode.
MaxEncodeEcc == 10

\* The byte values data blocks are drawn from and corruption writes.
ByteValues == {0, 1, 2}

\* The data blocks of length 1..max_len over ByteValues.
DataBlocks(max_len) ==
    UNION {[1..n -> ByteValues] : n \in 1..max_len}

\* The data blocks of the tests of ecc.rs.
TestBlocks == {<<32, 91, 11, 98, 56>>, <<65, 66, 67, 68, 69>>}

\* The variables SpecEncode and SpecRS leave alone.
rs_unused == <<version, matrix, original, mask_pattern, col, going_up,
               positions, config>>

InitRS ==
    /\ pc = "encode"
    /\ data \in DataBlocks(MaxDataLen)
    /\ num_ecc_codewords \in 1..MaxEcc
    /\ codeword = <<>>
    /\ received = <<>>
    /\ returned = NoReturns
    /\ version = Idle /\ matrix = Idle /\ original = Idle /\ mask_pattern = Idle
    /\ col = Idle /\ going_up = Idle /\ positions = Idle /\ config = Idle

InitEncode ==
    /\ pc = "encode"
    /\ data \in DataBlocks(2) \cup TestBlocks
    /\ num_ecc_codewords \in 1..MaxEncodeEcc
    /\ codeword = <<>>
    /\ received = <<>>
    /\ returned = NoReturns
    /\ version = Idle /\ matrix = Idle /\ original = Idle /\ mask_pattern = Idle
    /\ col = Idle /\ going_up = Idle /\ positions = Idle /\ config = Idle

\* get_generator_polynomial(num_ecc_codewords)
GetGeneratorPolynomial ==
    /\ pc = "encode"
    /\ "get_generator_polynomial" \notin DOMAIN returned
    /\ returned' = returned @@ ("get_generator_polynomial" :>
                                    get_generator_polynomial(num_ecc_codewords))
    /\ UNCHANGED <<pc, data, num_ecc_codewords, codeword, received, rs_unused>>

\* generate_ecc(&data, num_ecc_codewords); the codeword is data || ecc.
GenerateEcc ==
    /\ pc = "encode"
    /\ returned' = returned @@ ("generate_ecc" :> generate_ecc(data, num_ecc_codewords))
    /\ codeword' = data \o returned'["generate_ecc"]
    /\ received' = codeword'
    /\ pc' = "channel"
    /\ UNCHANGED <<data, num_ecc_codewords, rs_unused>>

\* The number of positions in which two words of one length differ.
differing(word, other) == Cardinality({k \in 1..Len(word) : word[k] # other[k]})

\* The number of corrupted codewords of the received block.
error_count == differing(received, codeword)

\* One byte of the received block is overwritten.
Corrupt ==
    /\ pc = "channel"
    /\ \E p \in 1..Len(received), v \in ByteValues :
          /\ v # received[p]
          /\ differing([received EXCEPT ![p] = v], codeword) <= MaxErrors
          /\ received' = [received EXCEPT ![p] = v]
    /\ UNCHANGED <<pc, returned, data, num_ecc_codewords, codeword, rs_unused>>

\* correct_errors(&received, num_ecc_codewords)
CorrectErrors ==
    /\ pc = "channel"
    /\ returned' = returned @@ ("correct_errors" :>
                                    correct_errors(received, num_ecc_codewords))
    /\ pc' = "decoded"
    /\ UNCHANGED <<data, num_ecc_codewords, codeword, received, rs_unused>>

NextEncode == GetGeneratorPolynomial \/ GenerateEcc

SpecEncode == InitEncode /\ [][NextEncode]_vars

NextRS == GenerateEcc \/ Corrupt \/ CorrectErrors

SpecRS == InitRS /\ [][NextRS]_vars

\* floor(t / 2), the number of errors the code corrects.
correction_capacity == num_ecc_codewords \div 2

\* C2: for every data block, every parity length t and every received word
\* obtained from data || generate_ecc(data, t) by changing e codewords with
\* 1 <= e <= floor(t/2), correct_errors returns Corrected whose data equals the
\* original data.
C2_CorrectionWithinCapacity ==
    (pc = "decoded" /\ error_count >= 1 /\ error_count <= correction_capacity) =>
        /\ returned["correct_errors"].kind = "Corrected"
        /\ returned["correct_errors"].data = data

\* Two errors, one in the data part and one in the ECC part, were corrected.
C2_Witness ==
    /\ pc = "decoded"
    /\ error_count = 2
    /\ num_ecc_codewords = 4
    /\ received[1] # codeword[1]
    /\ received[Len(received)] # codeword[Len(received)]
    /\ returned["correct_errors"] = Corrected(data)

\* C3 as claimed: when a codeword is corrupted in more than floor(t/2)
\* positions, correct_errors returns Uncorrectable.
C3_BeyondCapacityUncorrectable ==
    (pc = "decoded" /\ error_count > correction_capacity) =>
        returned["correct_errors"] = Uncorrectable

\* C3 as amended: when a codeword is corrupted in more than floor(t/2)
\* positions, correct_errors never returns the original data: it returns
\* Uncorrectable, or ErrorFree when the received word is another valid
\* codeword, or Corrected when the received word lies within floor(t/2)
\* positions of another valid codeword, with that other codeword's data.
C3_BeyondCapacityNeverOriginal ==
    (pc = "decoded" /\ error_count > correction_capacity) =>
        LET result == returned["correct_errors"]
        IN  \/ result = Uncorrectable
            \/ /\ result.kind = "ErrorFree"
               /\ result.data # data
               /\ received = result.data \o generate_ecc(result.data, num_ecc_codewords)
            \/ /\ result.kind = "Corrected"
               /\ result.data # data
               /\ differing(received,
                            result.data \o generate_ecc(result.data, num_ecc_codewords))
                      \in 1..correction_capacity

\* More than floor(t/2) corrupted codewords were reported Uncorrectable.
C3_Witness ==
    /\ pc = "decoded"
    /\ num_ecc_codewords = 3
    /\ error_count = 2
    /\ returned["correct_errors"] = Uncorrectable

\* C4: for every data block, every t >= 1 and every received word that
\* differs from data || generate_ecc(data, t) in e positions, 0 <= e <= t,
\* correct_errors returns ErrorFree(data) when e = 0 and never returns
\* ErrorFree when e >= 1.
C4_ErrorFreeExact ==
    pc = "decoded" =>
        /\ error_count = 0 => returned["correct_errors"] = ErrorFree(data)
        /\ (error_count >= 1 /\ error_count <= num_ecc_codewords) =>
               returned["correct_errors"].kind # "ErrorFree"

\* As many codewords as there are parity codewords were corrupted, and the
\* result is not ErrorFree.
C4_Witness ==
    /\ pc = "decoded"
    /\ error_count = num_ecc_codewords
    /\ num_ecc_codewords = 2
    /\ returned["correct_errors"].kind # "ErrorFree"

\* word(alpha^i), the word's first byte being the highest coefficient: the
\* sum of word[k] * alpha^(i * (n - k)), each product taken directly modulo
\* 0x11D.
direct_eval(word, i) ==
    gf_sum(SubSeq([k \in 1..Len(word) |->
                      gf_polynomial_product(word[k],
                                            alpha_power((i * (Len(word) - k)) % 255))],
                  1, Len(word)))

\* C5: generate_ecc(data, t) returns exactly the t coefficients of the
\* remainder of data(x) * x^t divided by g_t(x), the monic polynomial with the
\* roots alpha^0 .. alpha^(t-1): data || ecc is a multiple of g_t; and
\* get_generator_polynomial(t) yields the t + 1 coefficients of g_t, highest
\* degree first (degree 7 gives [1,127,122,154,164,11,68,117]; data
\* [32,91,11,98,56] with t = 10 gives [107,33,43,244,102,30,52,87,107,207]).
C5_SystematicEncoding ==
    /\ "get_generator_polynomial" \in DOMAIN returned =>
          LET g == returned["get_generator_polynomial"]
          IN  /\ Len(g) = num_ecc_codewords + 1
              /\ g[1] = 1
              /\ \A i \in 0..(num_ecc_codewords - 1) :
                    direct_eval(g, i) = 0
              /\ num_ecc_codewords = 7 => g = <<1, 127, 122, 154, 164, 11, 68, 117>>
    /\ "generate_ecc" \in DOMAIN returned =>
          LET ecc == returned["generate_ecc"]
          IN  /\ Len(ecc) = num_ecc_codewords
              /\ \A k \in 1..Len(ecc) : ecc[k] \in 0..255
              /\ \A i \in 0..(num_ecc_codewords - 1) :
                    direct_eval(data \o ecc, i) = 0
              /\ (data = <<32, 91, 11, 98, 56>> /\ num_ecc_codewords = 10) =>
                    ecc = <<107, 33, 43, 244, 102, 30, 52, 87, 107, 207>>

\* The test block was encoded with ten parity codewords.
C5_Witness ==
    /\ data = <<32, 91, 11, 98, 56>>
    /\ num_ecc_codewords = 10
    /\ "get_generator_polynomial" \in DOMAIN returned
    /\ "generate_ecc" \in DOMAIN returned
    /\ returned["generate_ecc"][10] = 207

(***************************************************************************)
(* alignment.rs: get_alignment_positions; ecc_data.rs: get_total_codewords *)
(***************************************************************************)

\* The forty arms of get_alignment_positions, V1 => [] .. V40.
alignment_positions_table ==
    <<<<>>,
      <<6, 18>>,
      <<6, 22>>,
      <<6, 26>>,
      <<6, 30>>,
      <<6, 34>>,
      <<6, 22, 38>>,
      <<6, 24, 42>>,
      <<6, 26, 46>>,
      <<6, 28, 50>>,
      <<6, 30, 54>>,
      <<6, 32, 58>>,
      <<6, 26, 46, 66>>,
      <<6, 26, 46, 66>>,
      <<6, 26, 48, 70>>,
      <<6, 26, 50, 74>>,
      <<6, 30, 54, 78>>,
      <<6, 30, 56, 82>>,
      <<6, 30, 58, 86>>,
      <<6, 34, 62, 90>>,
      <<6, 28, 50, 72, 94>>,
      <<6, 26, 50, 74, 98>>,
      <<6, 30, 54, 78, 102>>,
      <<6, 28, 54, 80, 106>>,
      <<6, 32, 58, 84, 110>>,
      <<6, 30, 58, 86, 114>>,
      <<6, 34, 62, 90, 118>>,
      <<6, 26, 50, 74, 98, 122>>,
      <<6, 30, 54, 78, 102, 126>>,
      <<6, 26, 52, 78, 104, 130>>,
      <<6, 30, 56, 82, 108, 134>>,
      <<6, 34, 60, 86, 112, 138>>,
      <<6, 30, 58, 86, 114, 142>>,
      <<6, 34, 62, 90, 118, 146>>,
      <<6, 30, 54, 78, 102, 126, 150>>,
      <<6, 24, 50, 76, 102, 128, 154>>,
      <<6, 28, 54, 80, 106, 132, 158>>,
      <<6, 32, 58, 84, 110, 136, 162>>,
      <<6, 26, 54, 82, 110, 138, 166>>,
      <<6, 30, 58, 86, 114, 142, 170>>>>

get_alignment_positions(v) == alignment_positions_table[v]

\* The arrays of get_total_codewords, versions 1..40.
total_codewords_table ==
    <<26, 44, 70, 100, 134, 172, 196, 242, 292, 346,
      404, 466, 532, 581, 655, 733, 815, 901, 991, 1085,
      1156, 1258, 1364, 1474, 1588, 1706, 1828, 1921, 2051, 2185,
      2323, 2465, 2611, 2761, 2876, 3034, 3196, 3362, 3532, 3706>>

get_total_codewords(v) == total_codewords_table[v]

(***************************************************************************)
(* pixel_mapping.rs: size_to_version, is_function_module,                  *)
(* get_data_ecc_positions                                                  *)
(***************************************************************************)

\* size_to_version(size): Some(version) for the forty sizes, None (0) otherwise.
size_to_version(size) ==
    IF \E v \in Versions : version_to_size_table[v] = size
    THEN CHOOSE v \in Versions : version_to_size_table[v] = size
    ELSE 0

\* a.saturating_sub(b) on usize.
saturating_sub(a, b) == IF a >= b THEN a - b ELSE 0

\* pixel_mapping::is_function_module(row, col, size)
pixel_mapping_is_function_module(row, column, size) ==
    LET v == IF size_to_version(size) = 0 THEN 1 ELSE size_to_version(size)
        alignment_positions == get_alignment_positions(v)
    IN  \/ (row < 9 /\ column < 9)
        \/ (row < 9 /\ column >= size - 8)
        \/ (row >= size - 8 /\ column < 9)
        \/ row = 6
        \/ column = 6
        \/ (row = 4 * ((size - 17) \div 4) + 9 /\ column = 8)
        \/ (row < 9 /\ (column < 9 \/ column >= size - 8))
        \/ (row >= size - 8 /\ column < 9)
        \/ (row = 8 /\ (column < 9 \/ column >= size - 7))
        \/ (column = 8 /\ (row < 9 \/ row >= size - 7))
        \/ \E a \in 1..Len(alignment_positions), b \in 1..Len(alignment_positions) :
              LET center_x == alignment_positions[a]
                  center_y == alignment_positions[b]
              IN  /\ ~ \/ (center_x <= 8 /\ center_y <= 8)
                       \/ (center_x <= 8 /\ center_y >= size - 9)
                       \/ (center_x >= size - 9 /\ center_y <= 8)
                  /\ row >= saturating_sub(center_y, 2)
                  /\ row <= center_y + 2
                  /\ column >= saturating_sub(center_x, 2)
                  /\ column <= center_x + 2

\* The rows of one column in the order of the sweep: (0..size).rev() going
\* up, 0..size going down.
sweep_rows(size, up) ==
    SubSeq([k \in 1..size |-> IF up THEN size - k ELSE k - 1], 1, size)

\* The positions one column adds: its non-function modules, in row order.
column_positions(c, size, up) ==
    LET rows == SelectSeq(sweep_rows(size, up),
                          LAMBDA row : ~pixel_mapping_is_function_module(row, c, size))
    IN  SubSeq([k \in 1..Len(rows) |-> <<rows[k], c>>], 1, Len(rows))

(***************************************************************************)
(* Specification SpecPositions: get_data_ecc_positions(version), one       *)
(* iteration of its `while col > 0` loop per step.                         *)
(***************************************************************************)

\* The largest version SpecPositions sweeps.
MaxSweepVersion == 7

\* The variables SpecPositions leaves alone.
positions_unused == <<matrix, original, mask_pattern, data, num_ecc_codewords,
                      codeword, received, config>>

InitPositions ==
    /\ pc = "sweep"
    /\ version \in 1..MaxSweepVersion
    /\ col = version_to_size(version) - 1
    /\ going_up = TRUE
    /\ positions = <<>>
    /\ returned = NoReturns
    /\ matrix = Idle /\ original = Idle /\ mask_pattern = Idle
    /\ data = Idle /\ num_ecc_codewords = Idle
    /\ codeword = Idle /\ received = Idle /\ config = Idle

\* `if col == 6 { col -= 1; continue; }`
SkipTimingColumn ==
    /\ pc = "sweep"
    /\ col > 0
    /\ col = 6
    /\ col' = col - 1
    /\ UNCHANGED <<pc, version, returned, going_up, positions, positions_unused>>

\* One strip: the columns col and col - 1, then the direction flips and the
\* sweep moves two columns to the left.
SweepStrip ==
    /\ pc = "sweep"
    /\ col > 0
    /\ col # 6
    /\ positions' = positions
                      \o column_positions(col, version_to_size(version), going_up)
                      \o column_positions(col - 1, version_to_size(version), going_up)
    /\ going_up' = ~going_up
    /\ col' = IF col >= 2 THEN col - 2 ELSE 0
    /\ UNCHANGED <<pc, version, returned, positions_unused>>

\* The loop ends at col = 0 and the positions are returned.
ReturnPositions ==
    /\ pc = "sweep"
    /\ col = 0
    /\ pc' = "done"
    /\ returned' = ("get_data_ecc_positions" :> positions)
    /\ UNCHANGED <<version, col, going_up, positions, positions_unused>>

NextPositions == SkipTimingColumn \/ SweepStrip \/ ReturnPositions

SpecPositions == InitPositions /\ [][NextPositions]_vars

\* The remainder bits of version v.
remainder_bits(v) ==
    IF v \in 2..6 THEN 7
    ELSE IF v \in 14..20 \/ v \in 28..34 THEN 3
    ELSE IF v \in 21..27 THEN 4
    ELSE 0

\* The function patterns of the version-v symbol: finders with separators,
\* timing lines, alignment patterns, the dark module and, from version 7 on,
\* the two version-info blocks.
symbol_pattern_module(v, r, c) ==
    LET n == 17 + 4 * v
        centers == get_alignment_positions(v)
    IN  \/ (r < 8 /\ c < 8) \/ (r < 8 /\ c >= n - 8) \/ (r >= n - 8 /\ c < 8)
        \/ (r = 6 /\ c >= 8 /\ c < n - 8) \/ (c = 6 /\ r >= 8 /\ r < n - 8)
        \/ (r = 4 * v + 9 /\ c = 8)
        \/ (v >= 7 /\ r <= 5 /\ c >= n - 11 /\ c <= n - 9)
        \/ (v >= 7 /\ c <= 5 /\ r >= n - 11 /\ r <= n - 9)
        \/ \E a \in 1..Len(centers), b \in 1..Len(centers) :
              /\ ~ \/ (a = 1 /\ b = 1)
                   \/ (a = 1 /\ b = Len(centers))
                   \/ (a = Len(centers) /\ b = 1)
              /\ r >= centers[b] - 2 /\ r <= centers[b] + 2
              /\ c >= centers[a] - 2 /\ c <= centers[a] + 2

\* The function modules of the version-v symbol: its function patterns and
\* the format-info modules.
symbol_function_module(v, r, c) ==
    LET n == 17 + 4 * v
    IN  \/ symbol_pattern_module(v, r, c)
        \/ (r = 8 /\ (c <= 8 \/ c >= n - 8))
        \/ (c = 8 /\ (r <= 8 \/ r >= n - 7))

\* C10: for every version v, get_data_ecc_positions(v) contains every data
\* (non-function) module of the version-v symbol exactly once, and its length
\* equals 8 * get_total_codewords(v) + remainder(v).
C10_SerpentineCoverage ==
    pc = "done" =>
        LET result == returned["get_data_ecc_positions"]
            n == 17 + 4 * version
        IN  /\ \A i, j \in 1..Len(result) : result[i] = result[j] => i = j
            /\ {result[i] : i \in 1..Len(result)} =
                   {<<r, c>> \in (0..(n - 1)) \X (0..(n - 1)) :
                        ~symbol_function_module(version, r, c)}
            /\ Len(result) = 8 * get_total_codewords(version) + remainder_bits(version)

(***************************************************************************)
(* types.rs: ErrorCorrection, DataMode; encoding.rs                        *)
(***************************************************************************)

ErrorCorrections == {"L", "M", "Q", "H"}

DataModes == {"Numeric", "Alphanumeric", "Byte"}

\* The column of an error-correction level in the tables below.
ecc_column(error_correction) ==
    CASE error_correction = "L" -> 1
      [] error_correction = "M" -> 2
      [] error_correction = "Q" -> 3
      [] error_correction = "H" -> 4

\* The bits of val least significant first.
bits_lsb_first(val, width) ==
    SubSeq([k \in 1..width |-> (val \div (2 ^ (k - 1))) % 2], 1, width)

\* (val >> (width-1)) & 1, ..., (val >> 0) & 1: the low `width` bits of val,
\* most significant first.
bits_msb_first(val, width) ==
    SubSeq([k \in 1..width |-> (val \div (2 ^ (width - k))) % 2], 1, width)

\* encoding.rs get_data_capacity_bits: one row per version, columns L, M, Q, H.
data_capacity_bits_table ==
    << <<152, 128, 104, 72>>, <<272, 224, 176, 128>>, <<440, 352, 272, 208>>, <<640, 512, 384, 288>>,
       <<864, 688, 496, 368>>, <<1088, 864, 608, 480>>, <<1248, 992, 704, 528>>, <<1552, 1232, 880, 688>>,
       <<1856, 1456, 1056, 800>>, <<2192, 1728, 1232, 976>>, <<2592, 2032, 1440, 1120>>, <<2960, 2320, 1648, 1264>>,
       <<3424, 2672, 1952, 1440>>, <<3688, 2920, 2088, 1576>>, <<4184, 3320, 2360, 1784>>, <<4712, 3624, 2600, 2024>>,
       <<5176, 4056, 2936, 2264>>, <<5768, 4504, 3176, 2504>>, <<6360, 5016, 3560, 2728>>, <<6888, 5352, 3880, 3080>>,
       <<7456, 5712, 4096, 3248>>, <<8048, 6256, 4544, 3536>>, <<8752, 6880, 4912, 3712>>, <<9392, 7312, 5312, 4112>>,
       <<10208, 8000, 5744, 4304>>, <<10960, 8496, 6032, 4768>>, <<11744, 9024, 6464, 5024>>, <<12248, 9544, 6968, 5288>>,
       <<13048, 10136, 7288, 5608>>, <<13880, 10984, 7880, 5960>>, <<14744, 11640, 8264, 6344>>, <<15640, 12328, 8920, 6760>>,
       <<16568, 13048, 9368, 7208>>, <<17528, 13800, 9848, 7688>>, <<18448, 14496, 10288, 7888>>, <<19472, 15312, 10832, 8432>>,
       <<20528, 15936, 11408, 8768>>, <<21616, 16816, 12016, 9136>>, <<22496, 17728, 12656, 9776>>, <<23648, 18672, 13328, 10208>> >>
get_data_capacity_bits(v, error_correction) ==
    data_capacity_bits_table[v][ecc_column(error_correction)]

\* char::to_digit(10) of an ASCII digit.
to_digit(c) == c - 48

\* encoding.rs encode_numeric, the groups of three digits from digit k on.
RECURSIVE encode_numeric_chunks(_, _)
encode_numeric_chunks(text, k) ==
    LET left == Len(text) - k + 1
    IN  IF left <= 0 THEN <<>>
        ELSE IF left >= 3
        THEN bits_msb_first(to_digit(text[k]) * 100 + to_digit(text[k + 1]) * 10
                                + to_digit(text[k + 2]), 10)
                 \o encode_numeric_chunks(text, k + 3)
        ELSE IF left = 2
        THEN bits_msb_first(to_digit(text[k]) * 10 + to_digit(text[k + 1]), 7)
        ELSE bits_msb_first(to_digit(text[k]), 4)

\* encoding.rs encode_numeric: mode 0001, a 10-bit count, the digit groups.
encode_numeric(text) ==
    <<0, 0, 0, 1>> \o bits_msb_first(Len(text), 10) \o encode_numeric_chunks(text, 1)

\* The bits of a sequence of bytes, eight a byte, most significant first:
\* (byte >> (7 - i)) & 1 for i in 0..8.
bytes_to_bits(bytes) ==
    SubSeq([n \in 1..(8 * Len(bytes)) |->
               (bytes[((n - 1) \div 8) + 1] \div (2 ^ (7 - ((n - 1) % 8)))) % 2],
           1, 8 * Len(bytes))

\* encoding.rs encode_byte: mode 0100, an 8-bit count, eight bits a byte.
encode_byte(text) ==
    <<0, 1, 0, 0>> \o bits_msb_first(Len(text), 8) \o bytes_to_bits(text)

\* encoding.rs alphanumeric_value, on the ASCII code of the character.
alphanumeric_value(c) ==
    IF c >= 48 /\ c <= 57 THEN c - 48
    ELSE IF c >= 65 /\ c <= 90 THEN c - 65 + 10
    ELSE CASE c = 32 -> 36 [] c = 36 -> 37 [] c = 37 -> 38 [] c = 42 -> 39
           [] c = 43 -> 40 [] c = 45 -> 41 [] c = 46 -> 42 [] c = 47 -> 43
           [] c = 58 -> 44 [] OTHER -> 0

\* encoding.rs encode_alphanumeric, the pairs from character k on.
RECURSIVE encode_alphanumeric_chunks(_, _)
encode_alphanumeric_chunks(text, k) ==
    LET left == Len(text) - k + 1
    IN  IF left <= 0 THEN <<>>
        ELSE IF left >= 2
        THEN bits_msb_first(alphanumeric_value(text[k]) * 45
                                + alphanumeric_value(text[k + 1]), 11)
                 \o encode_alphanumeric_chunks(text, k + 2)
        ELSE bits_msb_first(alphanumeric_value(text[k]), 6)

\* encoding.rs encode_alphanumeric: mode 0010, a 9-bit count, the pairs.
encode_alphanumeric(text) ==
    <<0, 0, 1, 0>> \o bits_msb_first(Len(text), 9)
        \o encode_alphanumeric_chunks(text, 1)

\* A run of n zero bits.
zero_bits(n) == SubSeq([k \in 1..n |-> 0], 1, n)

\* add_padding with a terminator of four bits whatever room is left.
add_padding_whole_terminator(data_bits, v, error_correction) ==
    LET data_capacity_bits == get_data_capacity_bits(v, error_correction)
        terminated == IF Len(data_bits) < data_capacity_bits
                      THEN data_bits \o zero_bits(4) ELSE data_bits
        missing == IF Len(terminated) < data_capacity_bits
                   THEN data_capacity_bits - Len(terminated) ELSE 0
    IN  terminated \o zero_bits(missing)

\* encoding.rs add_padding: the terminator, the zero bits up to the byte
\* boundary and the pad bytes 0xEC, 0x11, each cut at the data capacity.
add_padding(data_bits, v, error_correction) ==
    LET data_capacity_bits == get_data_capacity_bits(v, error_correction)
        terminated ==
            IF Len(data_bits) < data_capacity_bits
            THEN data_bits \o zero_bits(IF data_capacity_bits - Len(data_bits) < 4
                                        THEN data_capacity_bits - Len(data_bits)
                                        ELSE 4)
            ELSE data_bits
        to_boundary == (8 - (Len(terminated) % 8)) % 8
        aligned ==
            IF Len(terminated) >= data_capacity_bits THEN terminated
            ELSE terminated \o zero_bits(IF data_capacity_bits - Len(terminated) < to_boundary
                                         THEN data_capacity_bits - Len(terminated)
                                         ELSE to_boundary)
        missing == IF Len(aligned) < data_capacity_bits
                   THEN data_capacity_bits - Len(aligned) ELSE 0
    IN  aligned \o
        SubSeq([k \in 1..missing |->
                   LET padding_byte == IF ((k - 1) \div 8) % 2 = 0 THEN 236 ELSE 17
                   IN  (padding_byte \div (2 ^ (7 - ((k - 1) % 8)))) % 2],
               1, missing)

\* The byte of the chunk of up to eight bits that starts at bit `first`, from
\* its i-th bit on: byte |= bit << (7 - i), on bits that are 0 or 1.
RECURSIVE chunk_byte(_, _, _)
chunk_byte(bits, first, i) ==
    IF i > 7 \/ first + i > Len(bits) THEN 0
    ELSE bits[first + i] * (2 ^ (7 - i)) + chunk_byte(bits, first, i + 1)

\* encoding.rs generate_ecc (lines 372-380) and generator.rs bits_to_bytes:
\* the bytes of a bit vector, eight bits a byte, the last chunk as it comes.
bits_to_bytes(bits) ==
    LET count == (Len(bits) + 7) \div 8
    IN  SubSeq([k \in 1..count |-> chunk_byte(bits, 8 * (k - 1) + 1, 0)], 1, count)

\* encoding.rs get_block_info: (group-1 blocks, their data codewords, group-2
\* blocks, their data codewords, ECC codewords per block).
get_block_info(v, error_correction) ==
    CASE v = 1 /\ error_correction = "L" -> <<1, 19, 0, 0, 7>>
      [] v = 1 /\ error_correction = "M" -> <<1, 16, 0, 0, 10>>
      [] v = 1 /\ error_correction = "Q" -> <<1, 13, 0, 0, 13>>
      [] v = 1 /\ error_correction = "H" -> <<1, 9, 0, 0, 17>>
      [] v = 2 /\ error_correction = "L" -> <<1, 34, 0, 0, 10>>
      [] v = 2 /\ error_correction = "M" -> <<1, 28, 0, 0, 16>>
      [] v = 2 /\ error_correction = "Q" -> <<1, 22, 0, 0, 22>>
      [] v = 2 /\ error_correction = "H" -> <<1, 16, 0, 0, 28>>
      [] v = 3 /\ error_correction = "L" -> <<1, 55, 0, 0, 15>>
      [] v = 3 /\ error_correction = "M" -> <<1, 44, 0, 0, 26>>
      [] v = 3 /\ error_correction = "Q" -> <<2, 17, 0, 0, 18>>
      [] v = 3 /\ error_correction = "H" -> <<2, 13, 0, 0, 22>>
      [] v = 4 /\ error_correction = "L" -> <<1, 80, 0, 0, 20>>
      [] v = 4 /\ error_correction = "M" -> <<2, 32, 0, 0, 18>>
      [] v = 4 /\ error_correction = "Q" -> <<2, 24, 0, 0, 26>>
      [] v = 4 /\ error_correction = "H" -> <<4, 9, 0, 0, 16>>
      [] OTHER -> <<1, 16, 0, 0, 10>>

\* encoding.rs generate_ecc (lines 387-412): the block that starts after
\* byte_index bytes; a short tail is resized with 0xEC.
data_block(data_bytes, byte_index, block_size) ==
    IF byte_index + block_size <= Len(data_bytes)
    THEN SubSeq(data_bytes, byte_index + 1, byte_index + block_size)
    ELSE SubSeq([k \in 1..block_size |->
                    IF byte_index + k <= Len(data_bytes)
                    THEN data_bytes[byte_index + k] ELSE 236],
                1, block_size)

\* encoding.rs generate_ecc (lines 442-455): the bytes of the ECC blocks
\* (all of one length) interleaved, byte by byte across the blocks, as bits.
interleave_ecc_bits(ecc_blocks) ==
    LET blocks == Len(ecc_blocks)
        count == IF blocks = 0 THEN 0 ELSE blocks * Len(ecc_blocks[1])
    IN  bytes_to_bits(SubSeq([n \in 1..count |->
                                 ecc_blocks[((n - 1) % blocks) + 1][((n - 1) \div blocks) + 1]],
                             1, count))

\* encoding.rs generate_ecc: the data bytes split into the blocks of
\* get_block_info, each block's Reed-Solomon remainder, interleaved.
encoding_generate_ecc(data_bits, v, error_correction) ==
    LET info == get_block_info(v, error_correction)
        data_bytes == bits_to_bytes(data_bits)
        blocks == info[1] + info[3]
        data_blocks ==
            SubSeq([b \in 1..blocks |->
                       IF b <= info[1]
                       THEN data_block(data_bytes, (b - 1) * info[2], info[2])
                       ELSE data_block(data_bytes,
                                       info[1] * info[2] + (b - info[1] - 1) * info[4],
                                       info[4])],
                   1, blocks)
        ecc_blocks == SubSeq([b \in 1..blocks |-> generate_ecc(data_blocks[b], info[5])],
                             1, blocks)
    IN  interleave_ecc_bits(ecc_blocks)

\* encoding.rs encode_data: the mode's bit stream, padded, and its ECC bits.
encode_data(text, v, error_correction, mode) ==
    LET data_bits ==
            add_padding(CASE mode = "Numeric" -> encode_numeric(text)
                          [] mode = "Byte" -> encode_byte(text)
                          [] mode = "Alphanumeric" -> encode_alphanumeric(text),
                        v, error_correction)
    IN  [data_bits |-> data_bits,
         ecc_bits |-> encoding_generate_ecc(data_bits, v, error_correction)]

(***************************************************************************)
(* capacity.rs (not among the sources): character capacity per (version,   *)
(* ECC level, mode), from the data capacity and the segment layout.        *)
(***************************************************************************)

\* Width of the character-count field.
character_count_bits(v, mode) ==
    CASE mode = "Numeric" -> IF v <= 9 THEN 10 ELSE IF v <= 26 THEN 12 ELSE 14
      [] mode = "Alphanumeric" -> IF v <= 9 THEN 9 ELSE IF v <= 26 THEN 11 ELSE 13
      [] mode = "Byte" -> IF v <= 9 THEN 8 ELSE 16

\* Payload bits of n characters in a mode.
payload_bits(n, mode) ==
    CASE mode = "Numeric" ->
             10 * (n \div 3) + (IF n % 3 = 2 THEN 7 ELSE IF n % 3 = 1 THEN 4 ELSE 0)
      [] mode = "Alphanumeric" -> 11 * (n \div 2) + 6 * (n % 2)
      [] mode = "Byte" -> 8 * n

\* Whether n characters fit a (version, ECC level, mode) symbol.
fits_capacity(n, v, error_correction, mode) ==
    4 + character_count_bits(v, mode) + payload_bits(n, mode)
        <= get_data_capacity_bits(v, error_correction)

\* generator.rs / bin/qr-generator.rs calculate_version: the first version
\* whose capacity holds the text; data.len() <= capacity is fits_capacity.
RECURSIVE calculate_version_from(_, _, _, _)
calculate_version_from(v, n, error_correction, mode) ==
    IF v > MaxVersion THEN MaxVersion
    ELSE IF fits_capacity(n, v, error_correction, mode) THEN v
    ELSE calculate_version_from(v + 1, n, error_correction, mode)

calculate_version(text, error_correction, mode) ==
    calculate_version_from(1, Len(text), error_correction, mode)

(***************************************************************************)
(* alignment.rs is_alignment_pattern; generator.rs, the library's          *)
(* generate_qr_matrix and the functions it calls. A matrix is the sequence *)
(* of its rows; module (row, col) of the code is m[row + 1][col + 1].      *)
(***************************************************************************)

\* alignment.rs is_alignment_pattern: (x, y) lies in the 5x5 square of a
\* centre that is not skipped as overlapping a finder.
is_alignment_pattern(x, y, v) ==
    LET centers == get_alignment_positions(v)
    IN  \E a, b \in 1..Len(centers) :
            LET center_x == centers[a]
                center_y == centers[b]
            IN  /\ ~ \/ (center_x <= 8 /\ center_y <= 8)
                     \/ (center_x <= 8 /\ center_y >= Version_size(v) - 9)
                     \/ (center_x >= Version_size(v) - 9 /\ center_y <= 8)
                /\ x >= saturating_sub(center_x, 2) /\ x <= center_x + 2
                /\ y >= saturating_sub(center_y, 2) /\ y <= center_y + 2

\* vec![vec![0u8; size]; size]
zero_matrix(size) == SubSeq([i \in 1..size |-> zero_bits(size)], 1, size)

\* One pass of add_position_pattern covers (row, col): dy, dx in lo..hi - 1
\* with y + dy, x + dx below `limit` (and above 0), written at
\* [y + dy - 1][x + dx - 1].
position_pass(row, column, x, y, lo, hi, limit) ==
    LET dy == row + 1 - y
        dx == column + 1 - x
    IN  /\ dy >= lo /\ dy < hi /\ dx >= lo /\ dx < hi
        /\ y + dy > 0 /\ x + dx > 0 /\ y + dy < limit /\ x + dx < limit

\* generator.rs add_position_pattern: the white 9x9 border, the black 7x7
\* ring, the white 5x5 area and the black 3x3 centre, in this order.
add_position_pattern(m, x, y) ==
    LET size == Len(m)
    IN  SubSeq([i \in 1..size |-> SubSeq([j \in 1..size |->
            IF position_pass(i - 1, j - 1, x, y, 3, 6, size) THEN 1
            ELSE IF position_pass(i - 1, j - 1, x, y, 2, 7, size) THEN 0
            ELSE IF position_pass(i - 1, j - 1, x, y, 1, 8, size + 1) THEN 1
            ELSE IF position_pass(i - 1, j - 1, x, y, 0, 9, size + 1) THEN 0
            ELSE m[i][j]], 1, size)], 1, size)

\* generator.rs add_alignment_pattern: a 5x5 square with its corner at
\* (x, y), dark on the border and in the centre.
add_alignment_pattern(m, x, y) ==
    LET size == Len(m)
    IN  SubSeq([i \in 1..size |-> SubSeq([j \in 1..size |->
            LET dy == i - 1 - y
                dx == j - 1 - x
            IN  IF dy >= 0 /\ dy < 5 /\ dx >= 0 /\ dx < 5
                THEN IF (dy = 0 \/ dy = 4 \/ dx = 0 \/ dx = 4) \/ (dy = 2 /\ dx = 2)
                     THEN 1 ELSE 0
                ELSE m[i][j]], 1, size)], 1, size)

\* generator.rs add_timing_patterns: row 6 and column 6 between the finders.
add_timing_patterns(m, size) ==
    SubSeq([i \in 1..size |-> SubSeq([j \in 1..size |->
        IF i - 1 = 6 /\ j - 1 >= 8 /\ j - 1 < size - 8 THEN (j % 2)
        ELSE IF j - 1 = 6 /\ i - 1 >= 8 /\ i - 1 < size - 8 THEN (i % 2)
        ELSE m[i][j]], 1, size)], 1, size)

\* generator.rs add_alignment_patterns, from the pair (a, b) of centre
\* indices on: y is the outer loop, x the inner one.
RECURSIVE add_alignment_patterns_from(_, _, _, _)
add_alignment_patterns_from(m, centers, a, b) ==
    IF a > Len(centers) THEN m
    ELSE IF b > Len(centers) THEN add_alignment_patterns_from(m, centers, a + 1, 1)
    ELSE LET y == centers[a]
             x == centers[b]
             skipped == \/ (x < 9 /\ y < 9)
                        \/ (x >= Len(m) - 8 /\ y < 9)
                        \/ (x < 9 /\ y >= Len(m) - 8)
         IN  add_alignment_patterns_from(
                 IF skipped THEN m ELSE add_alignment_pattern(m, x - 2, y - 2),
                 centers, a, b + 1)

add_alignment_patterns(m, v) ==
    add_alignment_patterns_from(m, get_alignment_positions(v), 1, 1)

\* generator.rs add_dark_module: matrix[4 * version + 9][8] = 1.
add_dark_module(m, v) ==
    [m EXCEPT ![4 * v + 9 + 1][8 + 1] = 1]

\* generator.rs get_version_info: the table for V7..V20, NoVersionInfo for None.
NoVersionInfo == -1

version_info_table ==
    << 31892, 34236, 39577, 42195, 48118, 51042, 55367,
       58893, 63784, 68472, 70749, 76311, 79154, 84390 >>

get_version_info(v) ==
    IF v >= 7 /\ v <= 20 THEN version_info_table[v - 6] ELSE NoVersionInfo

\* generator.rs add_version_info, the writes: bit i of version_info at
\* [i / 3][size - 11 + i % 3] and at [size - 11 + i % 3][i / 3], i in 0..17.
write_version_info(m, version_info) ==
    LET size == Len(m)
    IN  SubSeq([r \in 1..size |-> SubSeq([c \in 1..size |->
            LET row == r - 1
                column == c - 1
            IN  IF row < 6 /\ column >= size - 11 /\ column < size - 8
                THEN (version_info \div (2 ^ (3 * row + column - (size - 11)))) % 2
                ELSE IF column < 6 /\ row >= size - 11 /\ row < size - 8
                THEN (version_info \div (2 ^ (3 * column + row - (size - 11)))) % 2
                ELSE m[r][c]], 1, size)], 1, size)

\* generator.rs add_version_info: nothing when get_version_info is None.
add_version_info(m, v) ==
    IF get_version_info(v) = NoVersionInfo THEN m
    ELSE write_version_info(m, get_version_info(v))

\* generator.rs get_format_info, the BCH loop: `rounds` more rounds on the
\* u16 remainder, each a shift left, with the generator 0b10100110111
\* added when bit 14 was set.
RECURSIVE format_remainder(_, _)
format_remainder(remainder, rounds) ==
    IF rounds = 0 THEN remainder
    ELSE format_remainder(IF (remainder \div 16384) % 2 = 1
                          THEN xor_u8((remainder * 2) % 65536, 1335)
                          ELSE (remainder * 2) % 65536,
                          rounds - 1)

\* generator.rs get_format_info: EC bits and mask bits, the remainder's low
\* ten bits, the whole XORed with 0x5412.
get_format_info(error_correction, mask) ==
    LET ec_bits == CASE error_correction = "L" -> 1
                     [] error_correction = "M" -> 0
                     [] error_correction = "Q" -> 3
                     [] error_correction = "H" -> 2
        format_info == (ec_bits * 8 + mask) * 1024
    IN  xor_u8(format_info + (format_remainder(format_info, 5) % 1024), 21522)

\* generator.rs add_format_info: the bit of format_info each module takes,
\* NoFormatBit for the modules it does not write.
NoFormatBit == -1

format_bit_at(row, column, size) ==
    IF row = 8 /\ column < 6 THEN column
    ELSE IF row = 8 /\ column = 7 THEN 6
    ELSE IF row = 8 /\ column = 8 THEN 7
    ELSE IF row = 7 /\ column = 8 THEN 8
    ELSE IF column = 8 /\ row < 6 THEN 9 + (5 - row)
    ELSE IF column = 8 /\ row >= size - 8 THEN size - 1 - row
    ELSE IF row = 8 /\ column >= size - 7 THEN 8 + column - (size - 7)
    ELSE NoFormatBit

add_format_info(m, error_correction, mask) ==
    LET format_info == get_format_info(error_correction, mask)
        size == Len(m)
    IN  SubSeq([r \in 1..size |-> SubSeq([c \in 1..size |->
            LET i == format_bit_at(r - 1, c - 1, size)
            IN  IF i = NoFormatBit THEN m[r][c]
                ELSE (format_info \div (2 ^ i)) % 2], 1, size)], 1, size)

\* is_function_module without its version-information branch.
is_function_module_without_version_info(x, y, size, v) ==
    \/ (x < 9 /\ y < 9) \/ (x >= size - 8 /\ y < 9) \/ (x < 9 /\ y >= size - 8)
    \/ x = 6 \/ y = 6
    \/ (x = 8 /\ y = 4 * v + 9)
    \/ (x = 8 /\ (y < 9 \/ y >= size - 8))
    \/ (y = 8 /\ (x < 9 \/ x >= size - 7))
    \/ is_alignment_pattern(x, y, v)

\* generator.rs is_function_module(x, y, size, version).
generator_is_function_module(x, y, size, v) ==
    \/ (x < 9 /\ y < 9) \/ (x >= size - 8 /\ y < 9) \/ (x < 9 /\ y >= size - 8)
    \/ x = 6 \/ y = 6
    \/ (x = 8 /\ y = 4 * v + 9)
    \/ (v >= 7 /\ ((x < 6 /\ y >= size - 11) \/ (y < 6 /\ x >= size - 11)))
    \/ (x = 8 /\ (y < 9 \/ y >= size - 8))
    \/ (y = 8 /\ (x < 9 \/ x >= size - 7))
    \/ is_alignment_pattern(x, y, v)

\* generator.rs get_block_structure: one data block and one ECC block, the
\* bytes of the two bit vectors.
get_block_structure(data_bits, ecc_bits) ==
    <<bits_to_bytes(data_bits), bits_to_bytes(ecc_bits)>>

\* generator.rs place_data_bits, the columns its loops walk from the state
\* (col, up) at the `while col > 0` test: col (or col - 1 after the timing
\* column) and the one left of it, then one more column is stepped over.
RECURSIVE place_data_columns(_, _)
place_data_columns(column, up) ==
    IF column <= 0 THEN <<>>
    ELSE LET c == IF column = 6 THEN column - 1 ELSE column
         IN  <<c, c - 1>> \o (IF c - 2 <= 0 THEN <<>>
                              ELSE place_data_columns(c - 3, ~up))

\* The sequences seqs[k], seqs[k + 1], ... appended to acc (the test on
\* Len(acc) only has acc evaluated before the next sequence is appended).
RECURSIVE flatten(_, _, _)
flatten(acc, seqs, k) ==
    IF k > Len(seqs) \/ Len(acc) < 0 THEN acc
    ELSE flatten(acc \o seqs[k], seqs, k + 1)

\* The direction of the k-th column walked: it flips after every pair.
place_data_up(k) == ((k - 1) \div 2) % 2 = 0

\* The modules place_data_bits can write, in the order it reaches them.
place_data_positions(size, v) ==
    LET columns == place_data_columns(size - 1, TRUE)
        cells == SubSeq([k \in 1..Len(columns) |->
                     LET rows == SelectSeq(sweep_rows(size, place_data_up(k)),
                                     LAMBDA row : ~generator_is_function_module(
                                                       columns[k], row, size, v))
                     IN  SubSeq([n \in 1..Len(rows) |-> <<rows[n], columns[k]>>],
                                1, Len(rows))], 1, Len(columns))
    IN  flatten(<<>>, cells, 1)

\* The matrix with stream[k] written at the k-th position, for the
\* positions the stream reaches.
write_stream(m, where, stream) ==
    LET count == IF Len(where) < Len(stream) THEN Len(where) ELSE Len(stream)
        placed == SubSeq(where, 1, count)
        size == Len(m)
    IN  SubSeq([r \in 1..size |-> SubSeq([c \in 1..size |->
            IF \E k \in 1..count : placed[k] = <<r - 1, c - 1>>
            THEN stream[CHOOSE k \in 1..count : placed[k] = <<r - 1, c - 1>>]
            ELSE m[r][c]], 1, size)], 1, size)

\* generator.rs place_data_bits, lines 189-211: all_bits, the interleaving of
\* the one data block followed by the interleaving of the one ECC block that
\* get_block_structure returns.
place_data_stream(encoded) ==
    LET blocks == get_block_structure(encoded.data_bits, encoded.ecc_bits)
    IN  blocks[1] \o blocks[2]

\* generator.rs place_data_bits: all_bits holds the BYTES of the data block
\* and of the ECC block (data_blocks[j][i] is pushed as it is), and each
\* free module on the walk takes the next element of all_bits.
place_data_bits(m, encoded, v) ==
    write_stream(m, place_data_positions(Len(m), v), place_data_stream(encoded))

\* generator.rs generate_qr_matrix, lines 8-24: the version, the empty
\* matrix and the function patterns.
function_patterns(v) ==
    LET size == 21 + (v - 1) * 4
        finders == add_position_pattern(
                       add_position_pattern(
                           add_position_pattern(zero_matrix(size), 0, 0),
                           size - 7, 0),
                       0, size - 7)
        drawn == add_dark_module(
                     add_alignment_patterns(add_timing_patterns(finders, size), v), v)
    IN  IF v >= 7 THEN add_version_info(drawn, v) ELSE drawn

(***************************************************************************)
(* Specification SpecGenerator: the library's generate_qr_matrix(data,     *)
(* config) of generator.rs, one step per stage of its body.                *)
(***************************************************************************)

\* The longest text SpecGenerator encodes: 59 bytes need version 7 at level H.
MaxGeneratorTextLen == 59

\* The text of n characters c.
repeat_char(c, n) == SubSeq([k \in 1..n |-> c], 1, n)

\* Texts of digits, valid in every mode: "1" and "11...1".
GeneratorTexts == {repeat_char(49, n) : n \in {1, MaxGeneratorTextLen}}

\* The configurations: QrConfig's fields with the data to encode.
GeneratorConfigs ==
    [data : GeneratorTexts, error_correction : ErrorCorrections,
     data_mode : DataModes, mask_pattern : MaskPatterns, skip_mask : BOOLEAN]

\* The variables SpecGenerator leaves alone.
generator_unused == <<returned, mask_pattern, data, num_ecc_codewords, codeword,
                      received, col, going_up, positions>>

InitGenerator ==
    /\ pc = "generate"
    /\ config \in GeneratorConfigs
    /\ version = Idle /\ matrix = Idle /\ original = Idle
    /\ returned = NoReturns /\ mask_pattern = Idle /\ data = Idle
    /\ num_ecc_codewords = Idle /\ codeword = Idle /\ received = Idle
    /\ col = Idle /\ going_up = Idle /\ positions = Idle

\* generate_qr_matrix, lines 8-24: calculate_version, the empty matrix, the
\* finders, timing lines, alignment patterns, dark module and version info.
PlaceFunctionPatterns ==
    /\ pc = "generate"
    /\ pc' = "patterns"
    /\ version' = calculate_version(config.data, config.error_correction,
                                    config.data_mode)
    /\ matrix' = function_patterns(version')
    /\ UNCHANGED <<original, config, generator_unused>>

\* generate_qr_matrix, lines 26-27: encode_data and place_data_bits.
PlaceData ==
    /\ pc = "patterns"
    /\ pc' = "placed"
    /\ matrix' = place_data_bits(matrix,
                     encode_data(config.data, version, config.error_correction,
                                 config.data_mode),
                     version)
    /\ UNCHANGED <<version, original, config, generator_unused>>

\* generate_qr_matrix, lines 29-31: apply_mask on the whole matrix unless
\* config.skip_mask; `original` keeps the matrix apply_mask was given.
GeneratorApplyMask ==
    /\ pc = "placed"
    /\ pc' = "masked"
    /\ original' = matrix
    /\ matrix' = IF ~config.skip_mask THEN apply_mask(matrix, config.mask_pattern)
                 ELSE matrix
    /\ UNCHANGED <<version, config, generator_unused>>

\* generate_qr_matrix, lines 33-35: add_format_info, and the matrix returned.
AddFormatInfo ==
    /\ pc = "masked"
    /\ pc' = "done"
    /\ matrix' = add_format_info(matrix, config.error_correction, config.mask_pattern)
    /\ returned' = ("generate_qr_matrix" :> matrix')
    /\ UNCHANGED <<version, original, config, mask_pattern, data, num_ecc_codewords,
                   codeword, received, col, going_up, positions>>

NextGenerator ==
    PlaceFunctionPatterns \/ PlaceData \/ GeneratorApplyMask \/ AddFormatInfo

SpecGenerator == InitGenerator /\ [][NextGenerator]_vars

bin_format_info_table ==
    << <<30660, 29427, 32170, 30877, 26159, 25368, 27713, 26998>>,
       <<21522, 20773, 24188, 23371, 17913, 16590, 20375, 19104>>,
       <<13663, 12392, 16177, 14854, 9396, 8579, 11994, 11245>>,
       <<5769, 5054, 7399, 6608, 1890, 597, 3340, 2107>> >>
bin_get_format_info(error_correction, mask) ==
    bin_format_info_table[ecc_column(error_correction)][mask + 1]

\* add_format_info with the bottom-left modules taking the bits 0..6 from the
\* last row upwards.
bin_format_bit_at_low_bits_below(row, column, size) ==
    IF column = 8 /\ row >= size - 7 THEN size - 1 - row
    ELSE IF row = 8 /\ column >= size - 8 THEN size - 1 - column
    ELSE IF row = 7 /\ column = 8 THEN 6
    ELSE IF row = 8 /\ column = 8 THEN 7
    ELSE IF row = 8 /\ column = 7 THEN 8
    ELSE IF column = 8 /\ row < 6 THEN row
    ELSE IF row = 8 /\ column < 6 THEN 14 - column
    ELSE NoFormatBit

\* bin/qr-generator.rs add_format_info: the bit of format_info each module
\* takes; where two loops write a module the later one wins.
bin_format_bit_at(row, column, size) ==
    IF column = 8 /\ row >= size - 7 THEN 14 - (size - 1 - row)
    ELSE IF row = 8 /\ column >= size - 8 THEN size - 1 - column
    ELSE IF row = 7 /\ column = 8 THEN 6
    ELSE IF row = 8 /\ column = 8 THEN 7
    ELSE IF row = 8 /\ column = 7 THEN 8
    ELSE IF column = 8 /\ row < 6 THEN row
    ELSE IF row = 8 /\ column < 6 THEN 14 - column
    ELSE NoFormatBit

bin_add_format_info(m, error_correction, mask) ==
    LET format_info == bin_get_format_info(error_correction, mask)
        size == Len(m)
    IN  SubSeq([r \in 1..size |-> SubSeq([c \in 1..size |->
            LET i == bin_format_bit_at(r - 1, c - 1, size)
            IN  IF i = NoFormatBit THEN m[r][c]
                ELSE (format_info \div (2 ^ i)) % 2], 1, size)], 1, size)

\* bin/qr-generator.rs is_function_module(x, y, size, version).
bin_is_function_module(x, y, size, v) ==
    \/ (x < 9 /\ y < 9) \/ (x >= size - 8 /\ y < 9) \/ (x < 9 /\ y >= size - 8)
    \/ x = 6 \/ y = 6
    \/ is_alignment_pattern(x, y, v)
    \/ (x < 9 /\ y = 8) \/ (y < 9 /\ x = 8)
    \/ (x >= size - 8 /\ y = 8) \/ (y >= size - 7 /\ x = 8)
    \/ (size >= 45 /\ ((x < 6 /\ y >= size - 11 /\ y < size - 8)
                          \/ (y < 6 /\ x >= size - 11 /\ x < size - 8)))
    \/ (x = 8 /\ y = size - 8)

\* The right-hand columns of the two-column strips of a zigzag walk that is
\* at column `column`: the timing column 6 is stepped over, then
\* col = col.saturating_sub(2).
RECURSIVE strip_columns(_)
strip_columns(column) ==
    IF column <= 0 THEN <<>>
    ELSE LET c == IF column = 6 THEN column - 1 ELSE column
         IN  <<c>> \o strip_columns(saturating_sub(c, 2))

\* The modules of the strip with right-hand column c, row by row in the
\* strip's direction, the right column before the left one, as (row, col).
strip_cells(c, size, up) ==
    LET rows == sweep_rows(size, up)
    IN  SubSeq([n \in 1..(2 * size) |-> <<rows[(n + 1) \div 2], c - ((n + 1) % 2)>>],
               1, 2 * size)

\* bin/qr-generator.rs place_data_bits: the free modules in the order of its
\* walk; the k-th strip goes up when k is odd.
bin_place_data_positions(size, v) ==
    LET columns == strip_columns(size - 1)
    IN  flatten(<<>>, SubSeq([k \in 1..Len(columns) |->
                           SelectSeq(strip_cells(columns[k], size, k % 2 = 1),
                               LAMBDA cell : ~bin_is_function_module(cell[2], cell[1],
                                                                     size, v))],
                       1, Len(columns)), 1)

\* bin/qr-generator.rs place_data_bits: the bits of the data bytes, then of
\* the ECC bytes, written along the walk until the stream ends.
bin_place_data_bits(m, encoded, v) ==
    LET blocks == get_block_structure(encoded.data_bits, encoded.ecc_bits)
        bit_stream == bytes_to_bits(blocks[1]) \o bytes_to_bits(blocks[2])
    IN  write_stream(m, bin_place_data_positions(Len(m), v), bit_stream)

\* a | b on unsigned integers.
RECURSIVE bit_or(_, _)
bit_or(a, b) ==
    IF a = 0 THEN b
    ELSE IF b = 0 THEN a
    ELSE 2 * bit_or(a \div 2, b \div 2) + (IF a % 2 = 1 \/ b % 2 = 1 THEN 1 ELSE 0)

\* bin/qr-generator.rs get_version_info, the BCH(18,6) loop: `rounds` more
\* rounds, each adding generator << 5 (0x1f25 << 5) when bit 17 is set and
\* shifting left.
RECURSIVE version_remainder(_, _)
version_remainder(result, rounds) ==
    IF rounds = 0 THEN result
    ELSE version_remainder(2 * (IF (result \div 131072) % 2 = 1
                                THEN xor_u8(result, 7973 * 32) ELSE result),
                           rounds - 1)

\* bin/qr-generator.rs get_version_info: None below version 7.
bin_get_version_info(v) ==
    IF v < 7 THEN NoVersionInfo
    ELSE bit_or(v * 4096, version_remainder(v * 4096, 6) \div 64)

\* bin/qr-generator.rs add_version_info: bit i * 3 + j at
\* [size - 11 + j][i] and at [i][size - 11 + j].
bin_add_version_info(m, v) ==
    IF bin_get_version_info(v) = NoVersionInfo THEN m
    ELSE write_version_info(m, bin_get_version_info(v))

\* bin/qr-generator.rs add_alignment_patterns, from the pair (a, b) of
\* centre indices on: center_x is the outer loop, center_y the inner one.
RECURSIVE bin_add_alignment_patterns_from(_, _, _, _)
bin_add_alignment_patterns_from(m, centers, a, b) ==
    IF a > Len(centers) THEN m
    ELSE IF b > Len(centers) THEN bin_add_alignment_patterns_from(m, centers, a + 1, 1)
    ELSE LET center_x == centers[a]
             center_y == centers[b]
             skipped == \/ (center_x <= 8 /\ center_y <= 8)
                        \/ (center_x <= 8 /\ center_y >= Len(m) - 9)
                        \/ (center_x >= Len(m) - 9 /\ center_y <= 8)
         IN  bin_add_alignment_patterns_from(
                 IF skipped THEN m
                 ELSE add_alignment_pattern(m, center_x - 2, center_y - 2),
                 centers, a, b + 1)

\* bin/qr-generator.rs generate_qr_matrix: the data is placed and masked on
\* the empty matrix, then the function patterns are drawn over it.
bin_generate_qr_matrix(text, cfg) ==
    LET v == calculate_version(text, cfg.error_correction, cfg.data_mode)
        size == Version_size(v)
        encoded == encode_data(text, v, cfg.error_correction, cfg.data_mode)
        placed == bin_place_data_bits(zero_matrix(size), encoded, v)
        masked == IF ~cfg.skip_mask THEN apply_mask(placed, cfg.mask_pattern)
                  ELSE placed
        finders == add_position_pattern(
                       add_position_pattern(add_position_pattern(masked, 0, 0),
                                            size - 7, 0),
                       0, size - 7)
        aligned == IF size > 21 THEN add_alignment_pattern(finders, size - 9, size - 9)
                   ELSE finders
        informed == bin_add_version_info(
                        bin_add_format_info(add_timing_patterns(aligned, size),
                                            cfg.error_correction, cfg.mask_pattern),
                        v)
        patterned == bin_add_alignment_patterns_from(
                         informed, get_alignment_positions(v), 1, 1)
    IN  \* add_dark_module: matrix[size - 8][8] = 1
        [patterned EXCEPT ![size - 8 + 1][8 + 1] = 1]

(***************************************************************************)
(* analyzer.rs: analyze_format_info, read_data_bits and                    *)
(* decode_data_comprehensive. An Option is the empty sequence (None) or a  *)
(* sequence of one element (Some), "None" where the values are strings.    *)
(***************************************************************************)

\* analyzer.rs bits_to_usize / bits_to_u16 on bits that are 0 or 1: the
\* number the first n bits spell, most significant first.
RECURSIVE bits_to_usize(_, _)
bits_to_usize(bits, n) ==
    IF n = 0 THEN 0 ELSE 2 * bits_to_usize(bits, n - 1) + bits[n]

\* analyzer.rs decode_format_info: the table of (value, level, mask).
format_map ==
    << <<30660, "L", 0>>, <<29427, "L", 1>>, <<32170, "L", 2>>, <<30877, "L", 3>>,
       <<26159, "L", 4>>, <<25368, "L", 5>>, <<27713, "L", 6>>, <<26998, "L", 7>>,
       <<21522, "M", 0>>, <<20773, "M", 1>>, <<24188, "M", 2>>, <<23371, "M", 3>>,
       <<17913, "M", 4>>, <<16590, "M", 5>>, <<20375, "M", 6>>, <<19104, "M", 7>>,
       <<13663, "Q", 0>>, <<12392, "Q", 1>>, <<16177, "Q", 2>>, <<14854, "Q", 3>>,
       <<9396, "Q", 4>>, <<8579, "Q", 5>>, <<11994, "Q", 6>>, <<11245, "Q", 7>>,
       <<5769, "H", 0>>, <<5054, "H", 1>>, <<7399, "H", 2>>, <<6608, "H", 3>>,
       <<1890, "H", 4>>, <<597, "H", 5>>, <<3340, "H", 6>>, <<2107, "H", 7>> >>
\* The mask of a format value that is not in the table.
NoMask == -1

decode_format_info(format_value) ==
    IF \E k \in 1..Len(format_map) : format_map[k][1] = format_value
    THEN LET entry == format_map[CHOOSE k \in 1..Len(format_map) :
                                     format_map[k][1] = format_value]
         IN  [error_correction |-> entry[2], mask_pattern |-> entry[3]]
    ELSE [error_correction |-> "None", mask_pattern |-> NoMask]

\* bits.iter().map(|&b| if b == 1 { '1' } else { '0' }).collect::<String>():
\* the characters '1' (49) and '0' (48).
raw_bits(bits) ==
    SubSeq([k \in 1..Len(bits) |-> IF bits[k] = 1 THEN 49 ELSE 48], 1, Len(bits))

\* analyzer.rs analyze_format_info: copy 1, read along row 8 and up column 8;
\* copy 2, read up column 8 from the last row, then (8, 8), then along row 8
\* to the last column; the two strings are compared and copy 1 is decoded.
analyze_format_info(m) ==
    LET size == Len(m)
        bits1 == SubSeq([k \in 1..15 |->
                    IF k <= 6 THEN m[8 + 1][k]
                    ELSE IF k = 7 THEN m[8 + 1][7 + 1]
                    ELSE IF k = 8 THEN m[8 + 1][8 + 1]
                    ELSE IF k = 9 THEN m[7 + 1][8 + 1]
                    ELSE m[15 - k + 1][8 + 1]], 1, 15)
        bits2 == SubSeq([k \in 1..15 |->
                    IF k <= 7 THEN m[size - k + 1][8 + 1]
                    ELSE IF k = 8 THEN m[8 + 1][8 + 1]
                    ELSE m[8 + 1][size - 7 + (k - 9) + 1]], 1, 15)
        decoded == decode_format_info(bits_to_usize(bits1, 15))
    IN  [raw_bits_copy1 |-> raw_bits(bits1),
         raw_bits_copy2 |-> raw_bits(bits2),
         copies_match |-> raw_bits(bits1) = raw_bits(bits2),
         error_correction |-> decoded.error_correction,
         mask_pattern |-> decoded.mask_pattern]

\* analyzer.rs get_total_capacity: the ECC codewords of V1..V10 by level.
ecc_codewords_table ==
    << <<7, 10, 13, 17>>, <<10, 16, 22, 28>>, <<15, 26, 36, 44>>, <<20, 36, 52, 64>>, <<26, 48, 72, 88>>,
       <<36, 64, 96, 112>>, <<40, 72, 108, 130>>, <<48, 88, 132, 156>>, <<60, 110, 160, 192>>, <<72, 130, 192, 224>> >>
\* analyzer.rs get_total_capacity on Some version and Some level: the data
\* capacity (get_data_capacity restates the table of encoding.rs) plus the
\* ECC bits, 80 past version 10.
get_total_capacity(v, error_correction) ==
    data_capacity_bits_table[v][ecc_column(error_correction)]
        + (IF v <= 10 THEN ecc_codewords_table[v][ecc_column(error_correction)] * 8
           ELSE 80)

\* analyzer.rs is_function_module(row, col, size).
analyzer_is_function_module(row, column, size) ==
    \/ (row < 9 /\ column < 9) \/ (row < 9 /\ column >= size - 8)
    \/ (row >= size - 8 /\ column < 9)
    \/ row = 6 \/ column = 6
    \/ (row = size - 8 /\ column = 8)
    \/ (row = 8 /\ (column < 9 \/ column >= size - 8))
    \/ (column = 8 /\ (row < 9 \/ row >= size - 7))
    \/ (size > 21 /\ row >= size - 7 - 2 /\ row <= size - 7 + 2
                  /\ column >= size - 7 - 2 /\ column <= size - 7 + 2)

\* analyzer.rs read_data_bits, the modules its walk reads when max_bits does
\* not cut it: the free modules strip by strip, as (row, col).
read_data_positions(size) ==
    LET columns == strip_columns(size - 1)
    IN  flatten(<<>>, SubSeq([k \in 1..Len(columns) |->
                    SelectSeq(strip_cells(columns[k], size, k % 2 = 1),
                        LAMBDA cell : ~analyzer_is_function_module(cell[1], cell[2],
                                                                   size))],
                    1, Len(columns)), 1)

\* analyzer.rs read_data_bits: the free modules strip by strip (the walk of
\* strip_columns and strip_cells), cut at max_bits, the total capacity of
\* the size's version at level H (no cut for a size that is no version's).
read_data_bits(m, size) ==
    LET cells == read_data_positions(size)
        max_bits == IF size_to_version(size) = 0 THEN Len(cells)
                    ELSE get_total_capacity(size_to_version(size), "H")
        count == IF Len(cells) < max_bits THEN Len(cells) ELSE max_bits
    IN  SubSeq([k \in 1..count |-> m[cells[k][1] + 1][cells[k][2] + 1]], 1, count)

\* format!("{:0w$}", value): the decimal digits of value as characters, at
\* least `width` of them.
RECURSIVE format_decimal(_, _)
format_decimal(value, width) ==
    IF width <= 1 /\ value < 10 THEN <<48 + value>>
    ELSE format_decimal(value \div 10, width - 1) \o <<48 + (value % 10)>>

\* analyzer.rs decode_numeric_bits from bit offset i: groups of 10 bits as
\* three digits while they fit, then 7 bits as two digits, then 4 as one.
RECURSIVE decode_numeric_groups(_, _)
decode_numeric_groups(bits, i) ==
    IF i + 10 <= Len(bits)
    THEN LET value == bits_to_usize(SubSeq(bits, i + 1, i + 10), 10)
         IN  (IF value <= 999 THEN format_decimal(value, 3) ELSE <<>>)
                 \o decode_numeric_groups(bits, i + 10)
    ELSE LET seven == i + 7 <= Len(bits)
             pair == bits_to_usize(SubSeq(bits, i + 1, i + 7), 7)
             j == IF seven THEN i + 7 ELSE i
             single == bits_to_usize(SubSeq(bits, j + 1, j + 4), 4)
         IN  (IF seven /\ pair <= 99 THEN format_decimal(pair, 2) ELSE <<>>)
                 \o (IF j + 4 <= Len(bits) /\ single <= 9
                     THEN format_decimal(single, 1) ELSE <<>>)

decode_numeric_bits(bits) == <<decode_numeric_groups(bits, 0)>>

\* analyzer.rs decode_alphanumeric_bits: Some("ALPHANUMERIC_DATA"), whatever
\* the bits.
decode_alphanumeric_bits(bits) ==
    << <<65, 76, 80, 72, 65, 78, 85, 77, 69, 82, 73, 67, 95, 68, 65, 84, 65>> >>

\* analyzer.rs decode_byte_bits: each 8 bits a character, '?' when it is not
\* ASCII.
decode_byte_bits(bits) ==
    LET count == Len(bits) \div 8
    IN  << SubSeq([k \in 1..count |->
                      LET byte_val == bits_to_usize(SubSeq(bits, 8 * k - 7, 8 * k), 8)
                      IN  IF byte_val < 128 THEN byte_val ELSE 63], 1, count) >>

\* analyzer.rs decode_data_bits.
decode_data_bits(bits, encoding_info) ==
    CASE encoding_info = <<0, 0, 0, 1>> -> decode_numeric_bits(bits)
      [] encoding_info = <<0, 0, 1, 0>> -> decode_alphanumeric_bits(bits)
      [] encoding_info = <<0, 1, 0, 0>> -> decode_byte_bits(bits)
      [] OTHER -> <<>>

\* analyzer.rs decode_data_comprehensive, the fields that come from the
\* unmasked bits: encoding_mode, data_length and extracted_data (the
\* capacity, padding and ECC fields are reports that feed none of them).
decode_data_comprehensive(m, mask) ==
    LET unmasked_bits == read_data_bits(apply_mask(m, mask), Len(m))
        encoding_info == SubSeq(unmasked_bits, 1, 4)
        length_bits == CASE encoding_info = <<0, 0, 0, 1>> -> 10
                         [] encoding_info = <<0, 0, 1, 0>> -> 9
                         [] OTHER -> 8
        has_length == Len(unmasked_bits) >= 4 + length_bits
        len == bits_to_usize(SubSeq(unmasked_bits, 5, 4 + length_bits), length_bits)
        data_start == 4 + length_bits
        data_bits_needed ==
            IF ~has_length THEN 0
            ELSE CASE encoding_info = <<0, 0, 0, 1>> ->
                          (len * 10) \div 3 + (IF len % 3 > 0 THEN 1 ELSE 0)
                   [] encoding_info = <<0, 0, 1, 0>> ->
                          (len * 11) \div 2 + (IF len % 2 > 0 THEN 1 ELSE 0)
                   [] encoding_info = <<0, 1, 0, 0>> -> len * 8
                   [] OTHER -> 0
        data_end == IF data_start + data_bits_needed < Len(unmasked_bits)
                    THEN data_start + data_bits_needed ELSE Len(unmasked_bits)
    IN  IF Len(unmasked_bits) < 8
        THEN [encoding_mode |-> "None", data_length |-> <<>>, extracted_data |-> <<>>]
        ELSE [encoding_mode |->
                  CASE encoding_info = <<0, 0, 0, 1>> -> "Numeric"
                    [] encoding_info = <<0, 0, 1, 0>> -> "Alphanumeric"
                    [] encoding_info = <<0, 1, 0, 0>> -> "Byte"
                    [] encoding_info = <<1, 0, 0, 0>> -> "Kanji"
                    [] OTHER -> "Unknown",
              data_length |-> IF has_length THEN <<len>> ELSE <<>>,
              extracted_data |->
                  IF data_end > data_start
                  THEN decode_data_bits(SubSeq(unmasked_bits, data_start + 1, data_end),
                                        encoding_info)
                  ELSE <<>>]

(***************************************************************************)
(* Specification SpecRoundTrip: the generator binary's generate_qr_matrix, *)
(* then the analyzer on the matrix it returned: analyze_format_info, and   *)
(* decode_data_comprehensive with the mask the format info gave.           *)
(***************************************************************************)

\* The length of the longest text: 18 bytes need version 2 at every level.
MaxRoundTripTextLen == 18

\* The texts: "7", "007", "42", "HI", "A", "a", the two bytes of U+00E9 and
\* "aa...a".
RoundTripTexts ==
    { <<55>>, <<48, 48, 55>>, <<52, 50>>, <<72, 73>>, <<65>>, <<97>>, <<195, 169>>,
      repeat_char(97, MaxRoundTripTextLen) }

\* A text is valid for a mode: digits for Numeric, the 45 characters of
\* alphanumeric_value for Alphanumeric, any bytes for Byte.
valid_for_mode(text, mode) ==
    \A k \in 1..Len(text) :
        CASE mode = "Numeric" -> text[k] \in 48..57
          [] mode = "Alphanumeric" ->
                 text[k] \in (48..57) \cup (65..90) \cup {32, 36, 37, 42, 43, 45, 46, 47, 58}
          [] mode = "Byte" -> text[k] \in 0..255

\* The configurations: masking is not skipped, the text is valid for the mode.
RoundTripConfigs ==
    {cfg \in [data : RoundTripTexts, error_correction : ErrorCorrections,
              data_mode : DataModes, mask_pattern : MaskPatterns, skip_mask : {FALSE}] :
         valid_for_mode(cfg.data, cfg.data_mode)}

\* The variables SpecRoundTrip leaves alone.
round_trip_unused == <<original, mask_pattern, data, num_ecc_codewords, codeword,
                       received, col, going_up, positions>>

InitRoundTrip ==
    /\ pc = "generate"
    /\ config \in RoundTripConfigs
    /\ version = Idle /\ matrix = Idle /\ original = Idle
    /\ returned = NoReturns /\ mask_pattern = Idle /\ data = Idle
    /\ num_ecc_codewords = Idle /\ codeword = Idle /\ received = Idle
    /\ col = Idle /\ going_up = Idle /\ positions = Idle

\* bin/qr-generator.rs main, lines 638-639: generate_qr_matrix and the
\* version it reports.
GenerateQrMatrix ==
    /\ pc = "generate"
    /\ pc' = "generated"
    /\ matrix' = bin_generate_qr_matrix(config.data, config)
    /\ version' = calculate_version(config.data, config.error_correction,
                                    config.data_mode)
    /\ UNCHANGED <<returned, config, round_trip_unused>>

\* analyzer.rs analyze_qr_code, lines 258-265: analyze_format_info.
AnalyzeFormatInfo ==
    /\ pc = "generated"
    /\ pc' = "format_read"
    /\ returned' = ("analyze_format_info" :> analyze_format_info(matrix))
    /\ UNCHANGED <<version, matrix, config, round_trip_unused>>

\* analyzer.rs analyze_qr_code, lines 281-283: decode_data_comprehensive
\* when the format info gave a mask.
DecodeDataComprehensive ==
    /\ pc = "format_read"
    /\ returned["analyze_format_info"].mask_pattern # NoMask
    /\ pc' = "decoded"
    /\ returned' = returned @@
           ("decode_data_comprehensive" :>
                decode_data_comprehensive(matrix,
                    returned["analyze_format_info"].mask_pattern))
    /\ UNCHANGED <<version, matrix, config, round_trip_unused>>

NextRoundTrip == GenerateQrMatrix \/ AnalyzeFormatInfo \/ DecodeDataComprehensive

SpecRoundTrip == InitRoundTrip /\ [][NextRoundTrip]_vars

\* C1: for every ecc level, every mode and every text that is valid for the
\* mode and fits the symbol, decoding the matrix produced by
\* generate_qr_matrix (format info read by analyze_format_info, data read by
\* decode_data_comprehensive) yields the same ecc level, the same mode and
\* extracted text equal to the input text.
C1_RoundTrip ==
    pc = "decoded" =>
        /\ returned["analyze_format_info"].error_correction = config.error_correction
        /\ returned["decode_data_comprehensive"].encoding_mode = config.data_mode
        /\ returned["decode_data_comprehensive"].extracted_data = <<config.data>>

(***************************************************************************)
(* encoding.rs get_block_info against get_data_capacity_bits, for every    *)
(* (version, ECC level).                                                   *)
(***************************************************************************)

\* The variables SpecBlockInfo leaves alone.
block_info_unused == <<matrix, original, mask_pattern, data, num_ecc_codewords,
                       codeword, received, col, going_up, positions>>

InitBlockInfo ==
    /\ pc = "block_info"
    /\ version \in Versions
    /\ config \in [error_correction : ErrorCorrections]
    /\ returned = NoReturns
    /\ matrix = Idle /\ original = Idle /\ mask_pattern = Idle
    /\ data = Idle /\ num_ecc_codewords = Idle
    /\ codeword = Idle /\ received = Idle
    /\ col = Idle /\ going_up = Idle /\ positions = Idle

CallGetBlockInfo ==
    /\ pc = "block_info"
    /\ "get_block_info" \notin DOMAIN returned
    /\ returned' = returned @@
           ("get_block_info" :> get_block_info(version, config.error_correction))
    /\ UNCHANGED <<pc, version, config, block_info_unused>>

CallGetDataCapacityBits ==
    /\ pc = "block_info"
    /\ "get_data_capacity_bits" \notin DOMAIN returned
    /\ returned' = returned @@
           ("get_data_capacity_bits" :>
                get_data_capacity_bits(version, config.error_correction))
    /\ UNCHANGED <<pc, version, config, block_info_unused>>

NextBlockInfo == CallGetBlockInfo \/ CallGetDataCapacityBits

SpecBlockInfo == InitBlockInfo /\ [][NextBlockInfo]_vars

\* C11: for every version 1..40 and every ECC level, the tuple (g1_blocks,
\* g1_dc, g2_blocks, g2_dc, ecc_per_block) returned by get_block_info has
\* g1_blocks * g1_dc + g2_blocks * g2_dc = get_data_capacity_bits / 8.
C11_CapacityConsistency ==
    (/\ pc = "block_info"
     /\ {"get_block_info", "get_data_capacity_bits"} \subseteq DOMAIN returned) =>
        LET info == returned["get_block_info"]
        IN  info[1] * info[2] + info[3] * info[4]
                = returned["get_data_capacity_bits"] \div 8

(***************************************************************************)
(* encoding.rs encode_data and the three segment encoders, for every       *)
(* version, ECC level and mode.                                            *)
(***************************************************************************)

\* Longest text given to encode_data.
MaxEncodeTextLen == 17

\* The lengths of the texts: the empty text, lengths that fill V1-H exactly
\* in byte (7) and alphanumeric (10) mode or overflow it (11), and the
\* lengths around the numeric capacity of V1-H.
EncodeTextLens == {0, 7, 10, 11} \cup (15..MaxEncodeTextLen)

\* The texts: runs of the digit 7, valid in every mode.
EncodeTexts == {repeat_char(55, n) : n \in EncodeTextLens}

\* encode_data's `match mode` (lines 10-14): the segment before padding. The
\* encoders take the version as `_version` and do not use it.
encode_segment(text, v, mode) ==
    CASE mode = "Numeric" -> encode_numeric(text)
      [] mode = "Byte" -> encode_byte(text)
      [] mode = "Alphanumeric" -> encode_alphanumeric(text)

\* The variables SpecEncodeData leaves alone.
encode_data_unused == <<matrix, original, mask_pattern, data, num_ecc_codewords,
                        codeword, received, col, going_up, positions>>

InitEncodeData ==
    /\ pc = "encode_data"
    /\ version \in Versions
    /\ config \in [data : EncodeTexts, error_correction : ErrorCorrections,
                   data_mode : DataModes]
    /\ returned = NoReturns
    /\ matrix = Idle /\ original = Idle /\ mask_pattern = Idle
    /\ data = Idle /\ num_ecc_codewords = Idle
    /\ codeword = Idle /\ received = Idle
    /\ col = Idle /\ going_up = Idle /\ positions = Idle

\* encode_numeric / encode_byte / encode_alphanumeric called on the text.
CallEncodeSegment ==
    /\ pc = "encode_data"
    /\ pc' = "segment"
    /\ returned' = returned @@
           ("encode_segment" :> encode_segment(config.data, version, config.data_mode))
    /\ UNCHANGED <<version, config, encode_data_unused>>

\* encode_data called on the same text.
CallEncodeData ==
    /\ pc = "segment"
    /\ pc' = "encoded"
    /\ returned' = returned @@
           ("encode_data" :> encode_data(config.data, version,
                                         config.error_correction, config.data_mode))
    /\ UNCHANGED <<version, config, encode_data_unused>>

NextEncodeData == CallEncodeSegment \/ CallEncodeData

SpecEncodeData == InitEncodeData /\ [][NextEncodeData]_vars

\* encode_data has returned for a text whose header and payload fit.
EncodedWithinCapacity ==
    /\ pc = "encoded"
    /\ fits_capacity(Len(config.data), version, config.error_correction,
                     config.data_mode)

\* C12: for every version, ECC level and mode and every valid text whose
\* header plus payload is no longer than the data capacity, encode_data
\* returns data_bits of length exactly get_data_capacity_bits(version, ecc),
\* eight times the number of data codewords.
C12_BitStreamLength ==
    EncodedWithinCapacity =>
        /\ Len(returned["encode_data"].data_bits)
               = get_data_capacity_bits(version, config.error_correction)
        /\ Len(returned["encode_data"].data_bits) % 8 = 0

\* A 17-digit numeric text at V1-H: 71 bits of segment, so the terminator is
\* cut to one bit and no pad byte follows.
C12_Witness ==
    /\ EncodedWithinCapacity
    /\ version = 1 /\ config.error_correction = "H" /\ config.data_mode = "Numeric"
    /\ Len(config.data) = 17
    /\ Len(returned["encode_data"].data_bits) = 72

\* C13: the character-count field written by encode_numeric /
\* encode_alphanumeric / encode_byte has the width of the (mode, version
\* bucket) table - numeric 10/12/14, alphanumeric 9/11/13, byte 8/16/16 bits
\* for versions 1-9 / 10-26 / 27-40: the segment is the 4-bit mode, a count
\* field of that width holding the text's length, then the payload.
C13_LengthHeaderWidth ==
    pc \in {"segment", "encoded"} =>
        LET segment == returned["encode_segment"]
            width == character_count_bits(version, config.data_mode)
        IN  /\ Len(segment) = 4 + width + payload_bits(Len(config.data), config.data_mode)
            /\ bits_msb_first(Len(config.data), width) = SubSeq(segment, 5, 4 + width)

(***************************************************************************)
(* Format information: generator.rs get_format_info, the table of          *)
(* bin/qr-generator.rs get_format_info, and analyzer.rs decode_format_info *)
(* on a codeword with a few bits flipped.                                  *)
(***************************************************************************)

\* Most bits flipped in a format-info codeword.
MaxFormatFlips == 3

\* Bit positions of the 15-bit format information.
FormatBitPositions == 0..14

\* The sets of at most MaxFormatFlips bit positions.
FormatFlips == {f \in SUBSET FormatBitPositions : Cardinality(f) <= MaxFormatFlips}

\* word with the bits at the positions in flips, from position bit up, inverted.
RECURSIVE flip_bits(_, _, _)
flip_bits(word, flips, bit) ==
    IF bit > 14 THEN word
    ELSE flip_bits(IF bit \in flips THEN xor_u8(word, 2 ^ bit) ELSE word, flips, bit + 1)

\* The remainder of value divided by generator over GF(2): the generator,
\* of the given degree, is subtracted at every set bit from `bit` down.
RECURSIVE bch_remainder(_, _, _, _)
bch_remainder(value, generator, bit, degree) ==
    IF bit < degree THEN value
    ELSE bch_remainder(IF (value \div (2 ^ bit)) % 2 = 1
                       THEN xor_u8(value, generator * (2 ^ (bit - degree)))
                       ELSE value,
                       generator, bit - 1, degree)

\* The 5-bit payload: ECC bits L=01, M=00, Q=11, H=10, then the mask index.
format_payload(error_correction, mask) ==
    8 * (CASE error_correction = "L" -> 1 [] error_correction = "M" -> 0
           [] error_correction = "Q" -> 3 [] error_correction = "H" -> 2) + mask

\* ((p << 10) | rem) XOR 0x5412, rem the remainder of p * x^10 by 0x537.
format_codeword(error_correction, mask) ==
    LET p == format_payload(error_correction, mask)
    IN  xor_u8(p * 1024 + bch_remainder(p * 1024, 1335, 14, 10), 21522)

\* The variables SpecFormat leaves alone.
format_unused == <<version, matrix, original, mask_pattern, data, num_ecc_codewords,
                   col, going_up, positions>>

InitFormat ==
    /\ pc = "format"
    /\ config \in [error_correction : ErrorCorrections, mask_pattern : MaskPatterns]
    /\ returned = NoReturns
    /\ codeword = Idle /\ received = Idle
    /\ version = Idle /\ matrix = Idle /\ original = Idle /\ mask_pattern = Idle
    /\ data = Idle /\ num_ecc_codewords = Idle
    /\ col = Idle /\ going_up = Idle /\ positions = Idle

\* generator.rs get_format_info called for the level and mask.
CallGetFormatInfo ==
    /\ pc = "format"
    /\ pc' = "computed"
    /\ returned' = returned @@
           ("get_format_info" :> get_format_info(config.error_correction,
                                                 config.mask_pattern))
    /\ UNCHANGED <<config, codeword, received, format_unused>>

\* bin/qr-generator.rs get_format_info called for the same level and mask;
\* its value is the codeword written into the symbol.
CallBinGetFormatInfo ==
    /\ pc = "computed"
    /\ pc' = "written"
    /\ codeword' = bin_get_format_info(config.error_correction, config.mask_pattern)
    /\ returned' = returned @@ ("bin_get_format_info" :> codeword')
    /\ UNCHANGED <<config, received, format_unused>>

\* Up to MaxFormatFlips modules of the format information are misread.
FlipFormatBits ==
    /\ pc = "written"
    /\ pc' = "read"
    /\ \E flips \in FormatFlips : received' = flip_bits(codeword, flips, 0)
    /\ UNCHANGED <<config, codeword, returned, format_unused>>

\* analyzer.rs decode_format_info called on the value read.
CallDecodeFormatInfo ==
    /\ pc = "read"
    /\ pc' = "decoded"
    /\ returned' = returned @@ ("decode_format_info" :> decode_format_info(received))
    /\ UNCHANGED <<config, codeword, received, format_unused>>

NextFormat ==
    CallGetFormatInfo \/ CallBinGetFormatInfo \/ FlipFormatBits \/ CallDecodeFormatInfo

SpecFormat == InitFormat /\ [][NextFormat]_vars

\* C14: for every (ecc, mask) pair and every 15-bit word obtained from its
\* valid format-info codeword by flipping 0, 1, 2 or 3 bits,
\* decode_format_info returns the original (ecc, mask).
C14_FormatCorrection ==
    pc = "decoded" =>
        /\ returned["decode_format_info"].error_correction = config.error_correction
        /\ returned["decode_format_info"].mask_pattern = config.mask_pattern

\* C15: for every ECC level and mask pattern, generator.rs get_format_info
\* returns ((p << 10) | rem) XOR 0x5412, p the ECC bits and the mask index,
\* rem the 10-bit remainder of p * x^10 by 0x537 over GF(2): the value of
\* the 32-entry table of bin/qr-generator.rs.
C15_FormatEncoding ==
    pc = "written" =>
        /\ returned["get_format_info"]
               = format_codeword(config.error_correction, config.mask_pattern)
        /\ returned["get_format_info"] = returned["bin_get_format_info"]

(***************************************************************************)
(* Version information: the table of generator.rs get_version_info and     *)
(* the computation of bin/qr-generator.rs get_version_info.                *)
(***************************************************************************)

\* The variables SpecVersionInfo leaves alone.
version_info_unused == <<matrix, original, mask_pattern, data, num_ecc_codewords,
                         codeword, received, col, going_up, positions, config>>

InitVersionInfo ==
    /\ pc = "version_info"
    /\ version \in Versions
    /\ returned = NoReturns
    /\ matrix = Idle /\ original = Idle /\ mask_pattern = Idle
    /\ data = Idle /\ num_ecc_codewords = Idle
    /\ codeword = Idle /\ received = Idle
    /\ col = Idle /\ going_up = Idle /\ positions = Idle /\ config = Idle

\* generator.rs get_version_info called on the version.
CallGetVersionInfo ==
    /\ pc = "version_info"
    /\ "get_version_info" \notin DOMAIN returned
    /\ returned' = returned @@ ("get_version_info" :> get_version_info(version))
    /\ UNCHANGED <<pc, version, version_info_unused>>

\* bin/qr-generator.rs get_version_info called on the version.
CallBinGetVersionInfo ==
    /\ pc = "version_info"
    /\ "bin_get_version_info" \notin DOMAIN returned
    /\ returned' = returned @@ ("bin_get_version_info" :> bin_get_version_info(version))
    /\ UNCHANGED <<pc, version, version_info_unused>>

NextVersionInfo == CallGetVersionInfo \/ CallBinGetVersionInfo

SpecVersionInfo == InitVersionInfo /\ [][NextVersionInfo]_vars

\* C16: for every version v from 7 to 40, get_version_info(v) returns an
\* 18-bit codeword whose top 6 bits equal v and whose low 12 bits are the
\* remainder of v * x^12 divided by 0x1F25 over GF(2); the table in
\* generator.rs and the computation in bin/qr-generator.rs return the same
\* codeword.
C16_VersionInfoEncoding ==
    (/\ pc = "version_info"
     /\ version >= 7
     /\ {"get_version_info", "bin_get_version_info"} \subseteq DOMAIN returned) =>
        /\ returned["bin_get_version_info"]
               = version * 4096 + bch_remainder(version * 4096, 7973, 17, 12)
        /\ returned["get_version_info"] = returned["bin_get_version_info"]

\* C17: in the matrix returned by generate_qr_matrix, the module at row
\* 4 * v + 9, column 8 is dark (1) for every input text, ECC level and mask
\* pattern, with or without skip_mask.
C17_DarkModule ==
    pc = "done" =>
        returned["generate_qr_matrix"][4 * version + 9 + 1][8 + 1] = 1

\* C18: for every (version, ecc) whose block table has more than one block
\* (V3-Q, V3-H, V4-M, V4-Q, V4-H), the data part of the codeword stream
\* placed into the matrix is column-interleaved - codeword c of block 0,
\* codeword c of block 1, ... for c = 0, 1, ... - and is followed by the
\* column-interleaved ECC codewords of the same blocks.
C18_DataInterleaving ==
    LET info == get_block_info(version, config.error_correction)
    IN  (pc = "placed" /\ info[1] + info[3] > 1) =>
            LET encoded == encode_data(config.data, version, config.error_correction,
                                       config.data_mode)
                data_bytes == bits_to_bytes(encoded.data_bits)
                stream == place_data_stream(encoded)
                blocks == info[1]
                count == info[1] * info[2]
            IN  /\ SubSeq(stream, 1, count)
                       = SubSeq([k \in 1..count |->
                                    data_bytes[((k - 1) % blocks) * info[2]
                                               + ((k - 1) \div blocks) + 1]],
                                1, count)
                /\ SubSeq(stream, count + 1, Len(stream))
                       = bits_to_bytes(encoded.ecc_bits)

(***************************************************************************)
(* encoding.rs encode_numeric / encode_alphanumeric / encode_byte on texts *)
(* that may hold characters illegal for the mode.                          *)
(***************************************************************************)

\* Longest text of the character checks.
MaxInvalidTextLen == 3

\* '1', 'A', 'a' and '#': a digit, an alphanumeric non-digit, and two
\* characters outside the 45-symbol alphabet.
CheckedCharacters == {49, 65, 97, 35}

CheckedTexts == UNION {[1..n -> CheckedCharacters] : n \in 1..MaxInvalidTextLen}

\* The outcome of a call that panicked.
Panic == "panic"

\* encode_numeric: `chunk[i].to_digit(10).unwrap()` is evaluated for every
\* character of every chunk, and panics on one that is not a digit.
numeric_unwrap_panics(text) == \E k \in 1..Len(text) : text[k] \notin 48..57

\* The segment encoder of the mode called on the text: Panic, or the bits.
encode_segment_outcome(text, v, mode) ==
    IF mode = "Numeric" /\ numeric_unwrap_panics(text) THEN Panic
    ELSE encode_segment(text, v, mode)

\* The variables SpecInvalidCharacter leaves alone.
invalid_unused == <<matrix, original, mask_pattern, data, num_ecc_codewords,
                    codeword, received, col, going_up, positions>>

InitInvalidCharacter ==
    /\ pc = "check"
    /\ version \in Versions
    /\ config \in [data : CheckedTexts, data_mode : DataModes]
    /\ returned = NoReturns
    /\ matrix = Idle /\ original = Idle /\ mask_pattern = Idle
    /\ data = Idle /\ num_ecc_codewords = Idle
    /\ codeword = Idle /\ received = Idle
    /\ col = Idle /\ going_up = Idle /\ positions = Idle

CallEncodeSegmentChecked ==
    /\ pc = "check"
    /\ pc' = "checked"
    /\ returned' = ("encode_segment" :>
                        encode_segment_outcome(config.data, version, config.data_mode))
    /\ UNCHANGED <<version, config, invalid_unused>>

NextInvalidCharacter == CallEncodeSegmentChecked

SpecInvalidCharacter == InitInvalidCharacter /\ [][NextInvalidCharacter]_vars

\* C19: encoding a text that contains a character illegal for the chosen
\* mode (a non-digit in numeric mode, a character outside the 45-symbol
\* alphabet in alphanumeric mode) ends in an error outcome and never
\* produces an encoded bit stream.
C19_InvalidCharacter ==
    (pc = "checked" /\ ~valid_for_mode(config.data, config.data_mode)) =>
        returned["encode_segment"] = Panic

(***************************************************************************)
(* calculate_version of generator.rs and of bin/qr-generator.rs, on texts  *)
(* at the edge of each version's capacity.                                 *)
(***************************************************************************)

\* capacity.rs get_unencoded_capacity_in_bytes (not among the sources): the
\* number of characters of a mode that fit a (version, ECC level) symbol.
get_unencoded_capacity_in_bytes(v, error_correction, mode) ==
    LET room == get_data_capacity_bits(v, error_correction) - 4
                    - character_count_bits(v, mode)
    IN  CASE mode = "Numeric" ->
                 3 * (room \div 10)
                     + (IF room % 10 >= 7 THEN 2 ELSE IF room % 10 >= 4 THEN 1 ELSE 0)
          [] mode = "Alphanumeric" ->
                 2 * (room \div 11) + (IF room % 11 >= 6 THEN 1 ELSE 0)
          [] mode = "Byte" -> room \div 8

\* The outcome of calculate_version when it returns no version.
NoVersion == 0

\* bin/qr-generator.rs calculate_version: the first version that holds the
\* text, and `panic!("Data too large ...")`, no version, when the loop ends
\* without one.
bin_calculate_version(text, error_correction, mode) ==
    IF \E v \in Versions : fits_capacity(Len(text), v, error_correction, mode)
    THEN calculate_version_from(1, Len(text), error_correction, mode)
    ELSE NoVersion

\* The texts: for every version, a run of digits as long as the version's
\* capacity, and one a character longer.
CalculateVersionConfigs ==
    {[data |-> repeat_char(49, get_unencoded_capacity_in_bytes(v, ec, mode) + extra),
      error_correction |-> ec, data_mode |-> mode] :
         v \in Versions, ec \in ErrorCorrections, mode \in DataModes, extra \in {0, 1}}

\* The variables SpecCalculateVersion leaves alone.
calculate_version_unused == <<version, matrix, original, mask_pattern, data,
                              num_ecc_codewords, codeword, received, col, going_up,
                              positions>>

InitCalculateVersion ==
    /\ pc = "calculate"
    /\ config \in CalculateVersionConfigs
    /\ returned = NoReturns
    /\ version = Idle /\ matrix = Idle /\ original = Idle /\ mask_pattern = Idle
    /\ data = Idle /\ num_ecc_codewords = Idle
    /\ codeword = Idle /\ received = Idle
    /\ col = Idle /\ going_up = Idle /\ positions = Idle

\* generator.rs calculate_version called on the text.
CallCalculateVersion ==
    /\ pc = "calculate"
    /\ pc' = "library"
    /\ returned' = returned @@
           ("calculate_version" :>
                calculate_version(config.data, config.error_correction, config.data_mode))
    /\ UNCHANGED <<config, calculate_version_unused>>

\* bin/qr-generator.rs calculate_version called on the same text.
CallBinCalculateVersion ==
    /\ pc = "library"
    /\ pc' = "calculated"
    /\ returned' = returned @@
           ("bin_calculate_version" :>
                bin_calculate_version(config.data, config.error_correction,
                                      config.data_mode))
    /\ UNCHANGED <<config, calculate_version_unused>>

NextCalculateVersion == CallCalculateVersion \/ CallBinCalculateVersion

SpecCalculateVersion == InitCalculateVersion /\ [][NextCalculateVersion]_vars

\* C20: when the text is longer than the capacity of version 40 for the
\* chosen (mode, ecc), calculate_version fails with an error and returns no
\* version; otherwise calculate_version returns the smallest version whose
\* capacity is at least the text length.
C20_CapacityExceeded ==
    pc = "calculated" =>
        LET capacity(v) == get_unencoded_capacity_in_bytes(v, config.error_correction,
                                                           config.data_mode)
            expected == IF Len(config.data) > capacity(MaxVersion) THEN NoVersion
                        ELSE CHOOSE v \in Versions :
                                 /\ Len(config.data) <= capacity(v)
                                 /\ \A w \in 1..(v - 1) : Len(config.data) > capacity(w)
        IN  /\ returned["calculate_version"] = expected
            /\ returned["bin_calculate_version"] = expected

(***************************************************************************)
(* analyze_qr_code of analyzer.rs and of bin/qr-analyzer.rs, from the      *)
(* binarized matrix to versions_match, as the steps of the function.       *)
(***************************************************************************)

\* Largest version of the symbols with version-info blocks analysed.
MaxAnalysedVersion == 8

\* Largest version the version-info blocks carry.
MaxCarriedVersion == 10

\* Side of the largest matrix that is no symbol size.
MaxOddSize == 12

\* analyze_qr_code, `match inner_size`: the version of a symbol size,
\* NoVersion for None.
version_from_size(inner_size) ==
    IF inner_size >= 21 /\ inner_size <= 177 /\ (inner_size - 21) % 4 = 0
    THEN (inner_size - 21) \div 4 + 1
    ELSE NoVersion

\* analyzer.rs check_finder_pattern on a matrix that holds the 7x7 square.
check_finder_pattern(m, start_x, start_y) ==
    \A y, x \in 0..6 :
        m[start_y + y + 1][start_x + x + 1]
            = (IF y \in {0, 6} \/ x \in {0, 6} THEN 1
               ELSE IF y \in {1, 5} \/ x \in {1, 5} THEN 0 ELSE 1)

\* analyzer.rs analyze_timing_patterns and analyze_dark_module on a matrix
\* of side 7 or more: `size - 8` underflows for size 7 (a panic, or a range
\* 8..2^64-8 whose first index is out of range), and matrix[size - 8][8] is
\* out of range for size 8.
analyze_patterns_panics(m) == Len(m) <= 8

\* analyzer.rs analyze_finder_patterns / analyze_timing_patterns /
\* analyze_dark_module, in that order, where they do not panic.
analyze_patterns(m) ==
    LET size == Len(m)
    IN       [finder_patterns |-> <<check_finder_pattern(m, 0, 0),
                                    check_finder_pattern(m, size - 7, 0),
                                    check_finder_pattern(m, 0, size - 7)>>,
              timing_patterns |->
                  /\ \A i \in 8..(size - 9) : m[6 + 1][i + 1] = (i + 1) % 2
                  /\ \A i \in 8..(size - 9) : m[i + 1][6 + 1] = (i + 1) % 2,
              dark_module |-> m[size - 8 + 1][8 + 1] = 1]

\* analyzer.rs analyze_version_info, the match on bits1: the strings of V7
\* to V10, as numbers read most significant bit first.
analyzer_version_strings == <<31892, 34236, 39577, 42195>>

\* analyzer.rs analyze_version_info: "None" below size 45; else the two
\* copies read with i in 0..6 outside and j in 0..3 inside, and the version
\* the first one spells when they are equal.
analyze_version_info(m) ==
    LET size == Len(m)
        bits1 == SubSeq([k \in 1..18 |->
                     m[size - 11 + ((k - 1) % 3) + 1][((k - 1) \div 3) + 1]], 1, 18)
        bits2 == SubSeq([k \in 1..18 |->
                     m[((k - 1) \div 3) + 1][size - 11 + ((k - 1) % 3) + 1]], 1, 18)
        copies_match == bits1 = bits2
        spelled == {n \in 1..Len(analyzer_version_strings) :
                       bits_msb_first(analyzer_version_strings[n], 18) = bits1}
    IN  IF size < 45 THEN "None"
        ELSE [copies_match |-> copies_match,
              version |-> IF copies_match /\ spelled # {}
                          THEN 6 + (CHOOSE n \in spelled : TRUE) ELSE NoVersion]

\* A matrix of version v whose version-info blocks carry version w as
\* bin/qr-generator.rs writes it, with the format info of a level and mask.
carried_matrix(v, w, error_correction, mask) ==
    bin_add_format_info(
        write_version_info(zero_matrix(17 + 4 * v), bin_get_version_info(w)),
        error_correction, mask)

\* The inputs: the analyzer run, the version carried, the matrix.
AnalysedInputs ==
    {[program |-> p, carried |-> w, matrix |-> carried_matrix(v, w, ec, k)] :
         p \in {"analyzer", "qr-analyzer"}, v \in 7..MaxAnalysedVersion,
         w \in 7..MaxCarriedVersion, ec \in ErrorCorrections, k \in MaskPatterns}
    \cup
    {[program |-> p, carried |-> NoVersion, matrix |-> zero_matrix(n)] :
         p \in {"analyzer", "qr-analyzer"}, n \in 7..MaxOddSize}

\* The variables SpecAnalyze leaves alone.
analyze_unused == <<version, original, mask_pattern, data, num_ecc_codewords,
                    codeword, received, col, going_up, positions>>

InitAnalyze ==
    /\ pc = "analyze"
    /\ \E input \in AnalysedInputs :
           /\ matrix = input.matrix
           /\ config = [program |-> input.program, carried |-> input.carried]
    /\ returned = NoReturns
    /\ version = Idle /\ original = Idle /\ mask_pattern = Idle
    /\ data = Idle /\ num_ecc_codewords = Idle
    /\ codeword = Idle /\ received = Idle
    /\ col = Idle /\ going_up = Idle /\ positions = Idle

\* `match inner_size`: analyzer.rs records an error for a size that is no
\* symbol size, bin/qr-analyzer.rs panics.
AnalyzeSize ==
    /\ pc = "analyze"
    /\ LET v == version_from_size(Len(matrix))
       IN  IF v = NoVersion /\ config.program = "qr-analyzer"
           THEN /\ pc' = "panicked"
                /\ UNCHANGED returned
           ELSE /\ pc' = "sized"
                /\ returned' = ("version_from_size" :> v) @@
                               ("version_from_format" :> NoVersion) @@
                               ("errors" :> IF v = NoVersion
                                            THEN <<"Unsupported QR code size">>
                                            ELSE <<>>)
    /\ UNCHANGED <<matrix, config, analyze_unused>>

\* analyze_finder_patterns, analyze_timing_patterns, analyze_dark_module.
AnalyzePatterns ==
    /\ pc = "sized"
    /\ IF analyze_patterns_panics(matrix)
       THEN /\ pc' = "panicked"
            /\ UNCHANGED returned
       ELSE /\ pc' = "patterns_read"
            /\ returned' = ("patterns" :> analyze_patterns(matrix)) @@ returned
    /\ UNCHANGED <<matrix, config, analyze_unused>>

\* analyze_format_info is Some(..): format_info.version and with it
\* version_from_format are set to version_from_size.
AnalyzeFormat ==
    /\ pc = "patterns_read"
    /\ pc' = "format_read"
    /\ returned' = ("format_info" :> analyze_format_info(matrix)) @@
                   ("version_from_format" :> returned["version_from_size"]) @@
                   returned
    /\ UNCHANGED <<matrix, config, analyze_unused>>

\* analyze_version_info, then versions_match.
AnalyzeVersionInfo ==
    /\ pc = "format_read"
    /\ pc' = "analysed"
    /\ returned' = ("version_info" :> analyze_version_info(matrix)) @@
                   ("versions_match" :>
                        (returned["version_from_size"] = returned["version_from_format"])) @@
                   returned
    /\ UNCHANGED <<matrix, config, analyze_unused>>

NextAnalyze == AnalyzeSize \/ AnalyzePatterns \/ AnalyzeFormat \/ AnalyzeVersionInfo

SpecAnalyze == InitAnalyze /\ [][NextAnalyze]_vars

\* C21: for a matrix of version >= 7 whose version-info blocks carry a
\* version different from the one derived from the matrix size, the
\* analysis reports the disagreement (versions_match is false or an error
\* is recorded); versions_match is true only when the version decoded from
\* the symbol equals the size-derived version.
C21_VersionCrossCheck ==
    (pc = "analysed" /\ returned["version_from_size"] >= 7) =>
        /\ config.carried # returned["version_from_size"] =>
               (~returned["versions_match"] \/ returned["errors"] # <<>>)
        /\ returned["versions_match"] =>
               returned["version_info"].version = returned["version_from_size"]

\* C22: for every square binarized matrix - including a size N that is not
\* 17 + 4 * v for v in 1..40 - analyze_qr_code returns an analysis that
\* reports the failing stage (an InvalidVersion-style error) and never
\* aborts with a panic or out-of-range access.
C22_DiagnosticCompletes ==
    /\ pc # "panicked"
    /\ (pc = "analysed" /\ returned["version_from_size"] = NoVersion) =>
           returned["errors"] # <<>>


(***************************************************************************)
(* Specification SpecPlacement: the modules the first stream bits go to in *)
(* generator.rs place_data_bits and bin/qr-generator.rs place_data_bits,   *)
(* and the modules analyzer.rs read_data_bits takes its first bits from.   *)
(***************************************************************************)
MaxPlacementVersion == 7
MaxStreamBits == 6

first_positions(where, count) ==
    SubSeq(where, 1, IF Len(where) < count THEN Len(where) ELSE count)

placement_unused ==
    <<matrix, original, mask_pattern, data, num_ecc_codewords, codeword, received,
      col, going_up, positions>>

InitPlacement ==
    /\ pc = "place"
    /\ version \in 1..MaxPlacementVersion
    /\ config \in [stream_bits : 1..MaxStreamBits]
    /\ returned = <<>>
    /\ matrix = Idle /\ original = Idle /\ mask_pattern = Idle /\ data = Idle
    /\ num_ecc_codewords = Idle /\ codeword = Idle /\ received = Idle
    /\ col = Idle /\ going_up = Idle /\ positions = Idle

\* generator.rs place_data_bits on a stream of config.stream_bits bits.
CallPlaceDataBits ==
    /\ pc = "place"
    /\ returned' = ("generator" :>
           first_positions(place_data_positions(Version_size(version), version),
                           config.stream_bits))
    /\ pc' = "lib_placed"
    /\ UNCHANGED <<version, config>> /\ UNCHANGED placement_unused

\* bin/qr-generator.rs place_data_bits on the same stream.
CallBinPlaceDataBits ==
    /\ pc = "lib_placed"
    /\ returned' = returned @@ ("qr-generator" :>
           first_positions(bin_place_data_positions(Version_size(version), version),
                           config.stream_bits))
    /\ pc' = "bin_placed"
    /\ UNCHANGED <<version, config>> /\ UNCHANGED placement_unused

\* analyzer.rs read_data_bits, its first config.stream_bits reads.
CallReadDataBits ==
    /\ pc = "bin_placed"
    /\ returned' = returned @@ ("analyzer" :>
           first_positions(read_data_positions(Version_size(version)),
                           config.stream_bits))
    /\ pc' = "read"
    /\ UNCHANGED <<version, config>> /\ UNCHANGED placement_unused

NextPlacement == CallPlaceDataBits \/ CallBinPlaceDataBits \/ CallReadDataBits

SpecPlacement == InitPlacement /\ [][NextPlacement]_vars

\* C23: bit k of the stream goes to the same module in generator.rs
\* place_data_bits and in bin/qr-generator.rs place_data_bits, and that is the
\* module read_data_bits takes its k-th bit from; within a strip the right
\* column of a row is followed by the left column of the same row.
C23_SerpentineOrder ==
    pc = "read" =>
        /\ returned["generator"] = returned["qr-generator"]
        /\ returned["generator"] = returned["analyzer"]
        /\ Len(returned["generator"]) >= 2 =>
               /\ returned["generator"][2][1] = returned["generator"][1][1]
               /\ returned["generator"][2][2] = returned["generator"][1][2] - 1


(***************************************************************************)
(* Specification SpecFrame: generate_qr_matrix of generator.rs up to       *)
(* place_data_bits, one step per placer, as the sets of modules written.   *)
(***************************************************************************)
MaxFrameVersion == 22

\* vec![vec![1u8; size]; size]
one_matrix(size) ==
    SubSeq([i \in 1..size |-> SubSeq([j \in 1..size |-> 1], 1, size)], 1, size)

\* The modules (row, col) a placer writes: a placer writes constants, so a
\* module is written when it has the same value in `on_light`, the placer's
\* result on a light matrix, and in `on_dark`, its result on a dark one.
written_modules(on_light, on_dark) ==
    {cell \in (0..(Len(on_light) - 1)) \X (0..(Len(on_light) - 1)) :
        on_light[cell[1] + 1][cell[2] + 1] = on_dark[cell[1] + 1][cell[2] + 1]}

\* The three calls of add_position_pattern in generate_qr_matrix.
add_position_patterns(m) ==
    add_position_pattern(
        add_position_pattern(add_position_pattern(m, 0, 0), Len(m) - 7, 0),
        0, Len(m) - 7)

\* generator.rs add_alignment_patterns, lines 337-340: the (y, x) pairs of
\* centres in the order its two loops reach them, y in the outer loop.
alignment_pairs(v) ==
    LET centers == get_alignment_positions(v)
        n == Len(centers)
    IN  SubSeq([k \in 1..(n * n) |->
                   <<centers[((k - 1) \div n) + 1], centers[((k - 1) % n) + 1]>>],
               1, n * n)

\* generator.rs place_data_bits, lines 220-241: the modules one pass of the
\* `while col > 0` body can write, the non-function modules of the column c
\* it starts in and of the column left of it (c >= 1 whenever col > 0, so
\* the second pass of `for _ in 0..2` always runs).
column_pair_modules(c, size, v) ==
    {cell \in (0..(size - 1)) \X {c, c - 1} :
        ~generator_is_function_module(cell[2], cell[1], size, v)}

frame_unused ==
    <<matrix, original, mask_pattern, data, num_ecc_codewords, codeword, received>>

\* config.size is `size` of generate_qr_matrix, line 9.
InitFrame ==
    /\ pc = "generate"
    /\ version \in 1..MaxFrameVersion
    /\ config = [size |-> 21 + (version - 1) * 4]
    /\ returned = ("placers" :> {})
    /\ matrix = Idle /\ original = Idle /\ mask_pattern = Idle /\ data = Idle
    /\ num_ecc_codewords = Idle /\ codeword = Idle /\ received = Idle
    /\ col = Idle /\ going_up = Idle /\ positions = Idle

\* The step of a placer: its modules join those written so far.
frame_step(from, to, on_light, on_dark) ==
    /\ pc = from
    /\ pc' = to
    /\ returned' = [returned EXCEPT !["placers"] =
                        @ \cup written_modules(on_light, on_dark)]
    /\ UNCHANGED <<version, config>> /\ UNCHANGED frame_unused

\* generate_qr_matrix, lines 13-15.
FrameAddPositionPatterns ==
    /\ frame_step("generate", "finders",
                  add_position_patterns(zero_matrix(config.size)),
                  add_position_patterns(one_matrix(config.size)))
    /\ UNCHANGED <<col, going_up, positions>>

\* generate_qr_matrix, line 18.
FrameAddTimingPatterns ==
    /\ frame_step("finders", "timing",
                  add_timing_patterns(zero_matrix(config.size), config.size),
                  add_timing_patterns(one_matrix(config.size), config.size))
    /\ UNCHANGED <<col, going_up, positions>>

\* generate_qr_matrix, line 19: the call of add_alignment_patterns, up to
\* the head of its loops; positions holds the pairs still to come.
FrameEnterAlignmentPatterns ==
    /\ pc = "timing"
    /\ pc' = "add_alignment_patterns"
    /\ positions' = alignment_pairs(version)
    /\ UNCHANGED <<version, config, returned, col, going_up>>
    /\ UNCHANGED frame_unused

\* add_alignment_patterns, lines 340-344: one pass of the inner loop body,
\* which skips the pairs in a finder's corner.
FrameAddAlignmentPattern ==
    /\ pc = "add_alignment_patterns"
    /\ positions # <<>>
    /\ LET y == Head(positions)[1]
           x == Head(positions)[2]
           size == config.size
           skipped == \/ (x < 9 /\ y < 9)
                      \/ (x >= size - 8 /\ y < 9)
                      \/ (x < 9 /\ y >= size - 8)
       IN  returned' = [returned EXCEPT !["placers"] =
               IF skipped THEN @
               ELSE @ \cup written_modules(
                        add_alignment_pattern(zero_matrix(size), x - 2, y - 2),
                        add_alignment_pattern(one_matrix(size), x - 2, y - 2))]
    /\ positions' = Tail(positions)
    /\ UNCHANGED <<pc, version, config, col, going_up>>
    /\ UNCHANGED frame_unused

\* generate_qr_matrix, line 20, once the loops of add_alignment_patterns
\* have ended.
FrameAddDarkModule ==
    /\ pc = "add_alignment_patterns"
    /\ positions = <<>>
    /\ frame_step("add_alignment_patterns", "dark_module",
                  add_dark_module(zero_matrix(config.size), version),
                  add_dark_module(one_matrix(config.size), version))
    /\ UNCHANGED <<col, going_up, positions>>

\* generate_qr_matrix, lines 22-24.
FrameAddVersionInfo ==
    /\ frame_step("dark_module", "version_info",
                  IF version >= 7
                  THEN add_version_info(zero_matrix(config.size), version)
                  ELSE zero_matrix(config.size),
                  IF version >= 7
                  THEN add_version_info(one_matrix(config.size), version)
                  ELSE one_matrix(config.size))
    /\ UNCHANGED <<col, going_up, positions>>

\* generate_qr_matrix, line 27: the call of place_data_bits, up to the head
\* of `while col > 0` (lines 213-217).
FrameEnterPlaceData ==
    /\ pc = "version_info"
    /\ pc' = "place_data_bits"
    /\ col' = config.size - 1
    /\ going_up' = TRUE
    /\ returned' = returned @@ ("place_data_bits" :> {})
    /\ UNCHANGED <<version, config, positions>>
    /\ UNCHANGED frame_unused

\* place_data_bits, lines 217-247: one pass of the `while col > 0` body. It
\* sweeps the columns c and c - 1, and leaves the loop when col reaches 0
\* after either of them, else it steps over one more column.
FramePlaceDataColumns ==
    /\ pc = "place_data_bits"
    /\ col > 0
    /\ LET c == IF col = 6 THEN col - 1 ELSE col
       IN  /\ returned' = [returned EXCEPT !["place_data_bits"] =
                   @ \cup column_pair_modules(c, config.size, version)]
           /\ col' = IF c - 1 = 0 \/ c - 2 = 0 THEN 0 ELSE c - 3
    /\ going_up' = ~going_up
    /\ UNCHANGED <<pc, version, config, positions>>
    /\ UNCHANGED frame_unused

NextFrame ==
    \/ FrameAddPositionPatterns \/ FrameAddTimingPatterns
    \/ FrameEnterAlignmentPatterns \/ FrameAddAlignmentPattern
    \/ FrameAddDarkModule \/ FrameAddVersionInfo
    \/ FrameEnterPlaceData \/ FramePlaceDataColumns

SpecFrame == InitFrame /\ [][NextFrame]_vars

\* C24: every module written by add_position_pattern, add_timing_patterns,
\* add_alignment_patterns, add_dark_module and add_version_info satisfies
\* is_function_module, place_data_bits writes only modules where
\* is_function_module is false, and so it leaves the placers' modules
\* unchanged.
C24_DataPlacementFrame ==
    /\ \A cell \in returned["placers"] :
           generator_is_function_module(cell[2], cell[1], config.size, version)
    /\ pc = "place_data_bits" =>
           /\ \A cell \in returned["place_data_bits"] :
                  ~generator_is_function_module(cell[2], cell[1],
                                                config.size, version)
           /\ returned["placers"] \cap returned["place_data_bits"] = {}

C24_Witness ==
    /\ pc = "place_data_bits" /\ col = 0 /\ version = 7
    /\ <<0, 34>> \in returned["placers"]
    /\ <<config.size - 8, 8>> \in returned["placers"]
    /\ <<44, 44>> \in returned["place_data_bits"]


(***************************************************************************)
(* Specification SpecFormatPlacement: add_format_info of                   *)
(* bin/qr-generator.rs on a light or dark matrix of config.size modules,   *)
(* then analyze_format_info of analyzer.rs on the result.                  *)
(***************************************************************************)
MaxFormatSize == 25

format_placement_unused ==
    <<version, original, mask_pattern, data, num_ecc_codewords, codeword, received,
      col, going_up, positions>>

InitFormatPlacement ==
    /\ pc = "format"
    /\ config \in [error_correction : ErrorCorrections, mask_pattern : MaskPatterns,
                   size : 21..MaxFormatSize]
    /\ matrix \in {zero_matrix(config.size), one_matrix(config.size)}
    /\ returned = <<>>
    /\ version = Idle /\ original = Idle /\ mask_pattern = Idle /\ data = Idle
    /\ num_ecc_codewords = Idle /\ codeword = Idle /\ received = Idle
    /\ col = Idle /\ going_up = Idle /\ positions = Idle

\* bin/qr-generator.rs add_format_info(&mut matrix, error_correction, mask_pattern).
CallBinAddFormatInfo ==
    /\ pc = "format"
    /\ matrix' = bin_add_format_info(matrix, config.error_correction,
                                     config.mask_pattern)
    /\ pc' = "written"
    /\ UNCHANGED <<config, returned>> /\ UNCHANGED format_placement_unused

\* analyzer.rs analyze_format_info(&matrix).
CallAnalyzeFormatInfo ==
    /\ pc = "written"
    /\ returned' = ("format_info" :> analyze_format_info(matrix))
    /\ pc' = "analysed"
    /\ UNCHANGED <<config, matrix>> /\ UNCHANGED format_placement_unused

NextFormatPlacement == CallBinAddFormatInfo \/ CallAnalyzeFormatInfo

SpecFormatPlacement == InitFormatPlacement /\ [][NextFormatPlacement]_vars

\* Bit i of the format word of the configuration.
format_word_bit(i) ==
    (bin_get_format_info(config.error_correction, config.mask_pattern) \div (2 ^ i)) % 2

\* C25: after add_format_info of bin/qr-generator.rs, analyze_format_info
\* reads the two copies as the same 15-character string, the format word
\* MSB-first, and decodes the (ecc, mask) that was written; copy 1 has the
\* bits 0..5 in column 8 rows 0..5, bit 6 at (7, 8), bit 7 at (8, 8), bit 8 at
\* (8, 7) and the bits 9..14 in row 8 columns 5..0.
C25_FormatPlacementRoundTrip ==
    pc = "analysed" =>
        LET info == returned["format_info"]
            word == raw_bits(bits_msb_first(
                        bin_get_format_info(config.error_correction,
                                            config.mask_pattern), 15))
        IN  /\ info.copies_match
            /\ info.raw_bits_copy1 = word
            /\ info.raw_bits_copy2 = word
            /\ info.error_correction = config.error_correction
            /\ info.mask_pattern = config.mask_pattern
            /\ \A i \in 0..5 : matrix[i + 1][8 + 1] = format_word_bit(i)
            /\ matrix[7 + 1][8 + 1] = format_word_bit(6)
            /\ matrix[8 + 1][8 + 1] = format_word_bit(7)
            /\ matrix[8 + 1][7 + 1] = format_word_bit(8)
            /\ \A i \in 9..14 : matrix[8 + 1][14 - i + 1] = format_word_bit(i)

C25_Witness ==
    /\ pc = "analysed"
    /\ config = [error_correction |-> "Q", mask_pattern |-> 5, size |-> 21]
    /\ matrix[1][1] = 1
    /\ returned["format_info"].copies_match
    /\ returned["format_info"].raw_bits_copy2 =
           <<48, 49, 48, 48, 48, 48, 49, 49, 48, 48, 48, 48, 48, 49, 49>>


(***************************************************************************)
(* Specification SpecHeader: encode_numeric, encode_alphanumeric or        *)
(* encode_byte of encoding.rs called on a text for a version and a level.  *)
(***************************************************************************)
MaxHeaderTextLen == 256

\* "HELLO WORLD"
HelloWorld == <<72, 69, 76, 76, 79, 32, 87, 79, 82, 76, 68>>

\* Runs of the digit 7 up to MaxHeaderTextLen characters, and "HELLO WORLD";
\* the runs longer than "HELLO WORLD" are encoded in byte mode only.
HeaderTexts ==
    {repeat_char(55, n) : n \in {0, 1, 11, MaxHeaderTextLen - 1, MaxHeaderTextLen}}
        \cup {HelloWorld}

\* The loops `for i in (0..10).rev()`, `(0..9).rev()` and `(0..8).rev()` that
\* write the count in encode_numeric, encode_alphanumeric and encode_byte.
count_field_bits(mode) ==
    CASE mode = "Numeric" -> 10
      [] mode = "Alphanumeric" -> 9
      [] mode = "Byte" -> 8

\* The mode indicators the three encoders push first.
mode_indicator(mode) ==
    CASE mode = "Numeric" -> <<0, 0, 0, 1>>
      [] mode = "Alphanumeric" -> <<0, 0, 1, 0>>
      [] mode = "Byte" -> <<0, 1, 0, 0>>

header_unused ==
    <<matrix, original, mask_pattern, data, num_ecc_codewords, codeword, received,
      col, going_up, positions>>

InitHeader ==
    /\ pc = "encode"
    /\ version \in Versions
    /\ config \in {cfg \in [data : HeaderTexts, error_correction : ErrorCorrections,
                            data_mode : DataModes] :
                       /\ valid_for_mode(cfg.data, cfg.data_mode)
                       /\ (cfg.data_mode = "Byte" \/ Len(cfg.data) <= Len(HelloWorld))}
    /\ returned = <<>>
    /\ matrix = Idle /\ original = Idle /\ mask_pattern = Idle /\ data = Idle
    /\ num_ecc_codewords = Idle /\ codeword = Idle /\ received = Idle
    /\ col = Idle /\ going_up = Idle /\ positions = Idle

\* encode_data, lines 10-14: the encoder of the mode is called.
CallEncoder ==
    /\ pc = "encode"
    /\ pc' = "encoded"
    /\ returned' = ("bits" :> encode_segment(config.data, version, config.data_mode))
    /\ UNCHANGED <<version, config>> /\ UNCHANGED header_unused

NextHeader == CallEncoder

SpecHeader == InitHeader /\ [][NextHeader]_vars

\* C26: the stream of an encoder begins with the 4-bit mode indicator and
\* the count, MSB-first; for every text whose stream fits the data capacity
\* of the version the count field read back as an unsigned integer is the
\* number of characters of the text; "HELLO WORLD" in alphanumeric mode at V1
\* begins 0010 000001011.
C26_StreamHeader ==
    pc = "encoded" =>
        LET bits == returned["bits"]
            width == count_field_bits(config.data_mode)
        IN  /\ SubSeq(bits, 1, 4) = mode_indicator(config.data_mode)
            /\ Len(bits) <= get_data_capacity_bits(version, config.error_correction) =>
                   bits_to_usize(SubSeq(bits, 5, 4 + width), width) = Len(config.data)
            /\ (config.data = HelloWorld /\ config.data_mode = "Alphanumeric"
                    /\ version = 1) =>
                   SubSeq(bits, 1, 13) = <<0, 0, 1, 0, 0, 0, 0, 0, 0, 1, 0, 1, 1>>


(***************************************************************************)
(* Specification SpecPadding: add_padding of encoding.rs on a stream of    *)
(* config.len one bits, for a version and a level.                         *)
(***************************************************************************)
MaxPaddingVersion == 3
MaxPaddingLen == 442

\* A run of n one bits.
one_bits(n) == SubSeq([k \in 1..n |-> 1], 1, n)

padding_unused ==
    <<matrix, original, mask_pattern, num_ecc_codewords, codeword, received,
      col, going_up, positions>>

InitPadding ==
    /\ pc = "encoded"
    /\ version \in 1..MaxPaddingVersion
    /\ config \in {cfg \in [error_correction : ErrorCorrections, len : 0..MaxPaddingLen] :
                       cfg.len <= get_data_capacity_bits(version, cfg.error_correction) + 2}
    /\ data = one_bits(config.len)
    /\ returned = <<>>
    /\ matrix = Idle /\ original = Idle /\ mask_pattern = Idle
    /\ num_ecc_codewords = Idle /\ codeword = Idle /\ received = Idle
    /\ col = Idle /\ going_up = Idle /\ positions = Idle

\* encode_data, line 17: add_padding(&mut data_bits, version, error_correction).
CallAddPadding ==
    /\ pc = "encoded"
    /\ pc' = "padded"
    /\ returned' = ("data_bits" :> add_padding(data, version, config.error_correction))
    /\ UNCHANGED <<version, config, data>> /\ UNCHANGED padding_unused

NextPadding == CallAddPadding

SpecPadding == InitPadding /\ [][NextPadding]_vars

\* Bit k (from 1) of the pad codewords 0xEC, 0x11, 0xEC, ...
pad_codeword_bit(k) ==
    bits_msb_first(IF ((k - 1) \div 8) % 2 = 0 THEN 236 ELSE 17, 8)[((k - 1) % 8) + 1]

\* C27: a stream no shorter than the capacity is left unchanged; a shorter
\* one gets min(4, capacity - len) zero bits, then zero bits up to the next
\* multiple of 8 but not beyond the capacity, then the codewords 0xEC, 0x11,
\* 0xEC, ... until its length is the capacity.
C27_TerminatorAndPadding ==
    pc = "padded" =>
        LET capacity == get_data_capacity_bits(version, config.error_correction)
            len == config.len
            out == returned["data_bits"]
            terminated == len + (IF capacity - len < 4 THEN capacity - len ELSE 4)
            boundary == IF 8 * ((terminated + 7) \div 8) < capacity
                        THEN 8 * ((terminated + 7) \div 8) ELSE capacity
        IN  IF len >= capacity THEN out = data
            ELSE /\ Len(out) = capacity
                 /\ SubSeq(out, 1, len) = data
                 /\ \A k \in (len + 1)..boundary : out[k] = 0
                 /\ \A k \in (boundary + 1)..capacity :
                        out[k] = pad_codeword_bit(k - boundary)

C27_Witness ==
    /\ pc = "padded" /\ version = 1 /\ config.error_correction = "L"
    /\ config.len = 99
    /\ SubSeq(returned["data_bits"], 100, 128) =
           <<0, 0, 0, 0, 0,  1, 1, 1, 0, 1, 1, 0, 0,  0, 0, 0, 1, 0, 0, 0, 1,
             1, 1, 1, 0, 1, 1, 0, 0>>


(***************************************************************************)
(* Specification SpecNumeric: encode_numeric of encoding.rs on a string of *)
(* digits.                                                                 *)
(***************************************************************************)
MaxNumericLen == 6

\* The digits '0', '1', '5' and '9'.
NumericDigits == {48, 49, 53, 57}

RECURSIVE digit_strings(_)
digit_strings(n) ==
    IF n = 0 THEN {<<>>}
    ELSE {Append(text, digit) : text \in digit_strings(n - 1), digit \in NumericDigits}

numeric_unused ==
    <<version, matrix, original, mask_pattern, num_ecc_codewords, codeword, received,
      col, going_up, positions, config>>

InitNumeric ==
    /\ pc = "encode"
    /\ data \in UNION {digit_strings(n) : n \in 0..MaxNumericLen}
    /\ returned = <<>>
    /\ version = Idle /\ config = Idle
    /\ matrix = Idle /\ original = Idle /\ mask_pattern = Idle
    /\ num_ecc_codewords = Idle /\ codeword = Idle /\ received = Idle
    /\ col = Idle /\ going_up = Idle /\ positions = Idle

\* encode_numeric(data, version).
CallEncodeNumeric ==
    /\ pc = "encode"
    /\ pc' = "encoded"
    /\ returned' = ("bits" :> encode_numeric(data))
    /\ UNCHANGED data /\ UNCHANGED numeric_unused

NextNumeric == CallEncodeNumeric

SpecNumeric == InitNumeric /\ [][NextNumeric]_vars

\* C28: after the 14 bits of the header the stream of encode_numeric holds
\* floor(n / 3) groups of 10 bits with 100 d1 + 10 d2 + d3 MSB-first, then 7
\* bits with 10 d1 + d2 when n mod 3 = 2 or 4 bits with d1 when n mod 3 = 1.
C28_NumericPacking ==
    pc = "encoded" =>
        LET n == Len(data)
            groups == n \div 3
            payload == SubSeq(returned["bits"], 15, Len(returned["bits"]))
            digit(k) == data[k] - 48
            tail == SubSeq(payload, 10 * groups + 1, Len(payload))
        IN  /\ Len(payload) = 10 * groups
                   + (IF n % 3 = 2 THEN 7 ELSE IF n % 3 = 1 THEN 4 ELSE 0)
            /\ \A g \in 1..groups :
                   bits_to_usize(SubSeq(payload, 10 * (g - 1) + 1, 10 * g), 10)
                       = 100 * digit(3 * g - 2) + 10 * digit(3 * g - 1) + digit(3 * g)
            /\ n % 3 = 2 => bits_to_usize(tail, 7) = 10 * digit(n - 1) + digit(n)
            /\ n % 3 = 1 => bits_to_usize(tail, 4) = digit(n)

C28_Witness ==
    /\ pc = "encoded"
    /\ data = <<57, 49, 53, 48, 49>>
    /\ SubSeq(returned["bits"], 15, 31) =
           <<1, 1, 1, 0, 0, 1, 0, 0, 1, 1,  0, 0, 0, 0, 0, 0, 1>>


(***************************************************************************)
(* Specification SpecAlignment: get_alignment_positions of alignment.rs    *)
(* and get_alignment_pattern_positions of analyzer.rs called on a version. *)
(***************************************************************************)

\* analyzer.rs get_alignment_pattern_positions, `centers`: the forty rows are
\* those of alignment.rs get_alignment_positions.
analyzer_alignment_centers(v) == alignment_positions_table[v]

\* analyzer.rs get_alignment_pattern_positions: the pairs (x, y) of centres,
\* y in the outer loop, without the three finder corners and without the
\* centres on the timing lines.
get_alignment_pattern_positions(v) ==
    LET centers == analyzer_alignment_centers(v)
        count == Len(centers)
        pairs == SubSeq([k \in 1..(count * count) |->
                     <<((k - 1) \div count) + 1, ((k - 1) % count) + 1>>],
                     1, count * count)
        kept == SelectSeq(pairs, LAMBDA ij :
                    /\ ~ \/ (ij[1] = 1 /\ ij[2] = 1)
                         \/ (ij[1] = 1 /\ ij[2] = count)
                         \/ (ij[1] = count /\ ij[2] = 1)
                    /\ centers[ij[2]] # 6 /\ centers[ij[1]] # 6)
    IN  SubSeq([k \in 1..Len(kept) |-> <<centers[kept[k][2]], centers[kept[k][1]]>>],
               1, Len(kept))

alignment_unused ==
    <<matrix, original, mask_pattern, data, num_ecc_codewords, codeword, received,
      col, going_up, positions>>

InitAlignment ==
    /\ pc = "call"
    /\ version \in Versions
    /\ config \in [program : {"alignment.rs", "analyzer.rs"}]
    /\ returned = <<>>
    /\ matrix = Idle /\ original = Idle /\ mask_pattern = Idle /\ data = Idle
    /\ num_ecc_codewords = Idle /\ codeword = Idle /\ received = Idle
    /\ col = Idle /\ going_up = Idle /\ positions = Idle

\* alignment.rs get_alignment_positions(version).
CallGetAlignmentPositions ==
    /\ pc = "call" /\ config.program = "alignment.rs"
    /\ pc' = "returned"
    /\ returned' = ("centers" :> get_alignment_positions(version))
    /\ UNCHANGED <<version, config>> /\ UNCHANGED alignment_unused

\* analyzer.rs get_alignment_pattern_positions(version).
CallGetAlignmentPatternPositions ==
    /\ pc = "call" /\ config.program = "analyzer.rs"
    /\ pc' = "returned"
    /\ returned' = ("centers" :> analyzer_alignment_centers(version))
                       @@ ("positions" :> get_alignment_pattern_positions(version))
    /\ UNCHANGED <<version, config>> /\ UNCHANGED alignment_unused

NextAlignment == CallGetAlignmentPositions \/ CallGetAlignmentPatternPositions

SpecAlignment == InitAlignment /\ [][NextAlignment]_vars

\* C29: for V1 the list of alignment centres is empty; for the versions
\* 2..40 it is strictly increasing, starts with 6, ends with 4 v + 10 and has
\* floor(v / 7) + 2 entries.
C29_AlignmentTableShape ==
    pc = "returned" =>
        LET centers == returned["centers"]
        IN  IF version = 1 THEN centers = <<>>
            ELSE /\ Len(centers) = (version \div 7) + 2
                 /\ centers[1] = 6
                 /\ centers[Len(centers)] = 4 * version + 10
                 /\ \A k \in 1..(Len(centers) - 1) : centers[k] < centers[k + 1]


(***************************************************************************)
(* Specification SpecTables: get_total_codewords and get_ecc_codewords of  *)
(* ecc_data.rs and get_data_capacity_bits of encoding.rs called on a       *)
(* version and a level.                                                    *)
(***************************************************************************)

\* ecc_data.rs get_ecc_codewords: one row per level L, M, Q, H, the forty
\* versions in each.
get_ecc_codewords_table ==
    <<<<7, 10, 15, 20, 26, 36, 40, 48, 60, 72,
        80, 96, 104, 120, 132, 144, 168, 180, 196, 224,
        224, 252, 270, 300, 312, 336, 360, 390, 420, 450,
        480, 510, 540, 570, 570, 600, 630, 660, 720, 750>>,
      <<10, 16, 26, 36, 48, 64, 72, 88, 110, 130,
        150, 176, 198, 216, 240, 280, 308, 338, 364, 416,
        442, 476, 504, 560, 588, 644, 700, 728, 784, 812,
        868, 924, 980, 1036, 1064, 1120, 1204, 1260, 1316, 1372>>,
      <<13, 22, 36, 52, 72, 96, 108, 132, 160, 192,
        224, 260, 288, 320, 360, 408, 448, 504, 546, 600,
        644, 690, 750, 810, 870, 952, 1020, 1050, 1140, 1200,
        1290, 1350, 1440, 1530, 1590, 1680, 1770, 1860, 1950, 2040>>,
      <<17, 28, 44, 64, 88, 112, 130, 156, 192, 224,
        264, 308, 352, 384, 432, 480, 532, 588, 650, 700,
        750, 816, 900, 960, 1050, 1110, 1200, 1260, 1350, 1440,
        1530, 1620, 1710, 1800, 1890, 1980, 2100, 2220, 2310, 2430>>>>

\* get_ecc_codewords with the row of level M for every level.
get_ecc_codewords_of_level_m(v, error_correction) ==
    get_ecc_codewords_table[ecc_column("M")][v]

\* ecc_data.rs get_ecc_codewords(version, error_correction).
get_ecc_codewords(v, error_correction) ==
    get_ecc_codewords_table[ecc_column(error_correction)][v]

tables_unused ==
    <<matrix, original, mask_pattern, data, num_ecc_codewords, codeword, received,
      col, going_up, positions>>

InitTables ==
    /\ pc = "call"
    /\ version \in Versions
    /\ config \in [error_correction : ErrorCorrections]
    /\ returned = <<>>
    /\ matrix = Idle /\ original = Idle /\ mask_pattern = Idle /\ data = Idle
    /\ num_ecc_codewords = Idle /\ codeword = Idle /\ received = Idle
    /\ col = Idle /\ going_up = Idle /\ positions = Idle

\* get_total_codewords(version).
LookUpTotalCodewords ==
    /\ pc = "call"
    /\ pc' = "total"
    /\ returned' = ("get_total_codewords" :> get_total_codewords(version))
    /\ UNCHANGED <<version, config>> /\ UNCHANGED tables_unused

\* get_ecc_codewords(version, error_correction).
LookUpEccCodewords ==
    /\ pc = "total"
    /\ pc' = "ecc"
    /\ returned' = returned @@ ("get_ecc_codewords" :>
                       get_ecc_codewords(version, config.error_correction))
    /\ UNCHANGED <<version, config>> /\ UNCHANGED tables_unused

\* get_data_capacity_bits(version, error_correction).
LookUpDataCapacityBits ==
    /\ pc = "ecc"
    /\ pc' = "capacity"
    /\ returned' = returned @@ ("get_data_capacity_bits" :>
                       get_data_capacity_bits(version, config.error_correction))
    /\ UNCHANGED <<version, config>> /\ UNCHANGED tables_unused

NextTables == LookUpTotalCodewords \/ LookUpEccCodewords \/ LookUpDataCapacityBits

SpecTables == InitTables /\ [][NextTables]_vars

\* C30: for every version and level, get_total_codewords minus
\* get_ecc_codewords is get_data_capacity_bits / 8, and get_data_capacity_bits
\* is a multiple of 8.
C30_CrossTableConsistency ==
    pc = "capacity" =>
        /\ returned["get_total_codewords"] - returned["get_ecc_codewords"]
               = returned["get_data_capacity_bits"] \div 8
        /\ returned["get_data_capacity_bits"] % 8 = 0

C30_Witness ==
    /\ pc = "capacity" /\ version = 40 /\ config.error_correction = "H"
    /\ returned["get_total_codewords"] = 3706
    /\ returned["get_ecc_codewords"] = 2430
    /\ returned["get_data_capacity_bits"] = 10208

====
